---- MODULE Spec2Model ----
(***************************************************************************)
(* Service registry, repository assignment and repository state machine   *)
(* of the service-intelligence backend:                                    *)
(*   src/api/intelligence/service_manager.py          (ServiceManager)     *)
(*   src/api/intelligence/repository_state_manager.py (RepositoryState-    *)
(*                                                     Manager)            *)
(*                                                                         *)
(* Encodings.  A Python string is a sequence of one-character strings.     *)
(* A JSON value read from disk is a record with a field "shape"; a JSON    *)
(* object carries its members as further record fields, so that a member   *)
(* is missing exactly when the field is missing.  A member that the code   *)
(* only tests for truthiness is stored by its truth value: enriched, and   *)
(* the timestamps of a repository entry (TRUE for an ISO text, FALSE for   *)
(* "" or null).  The timestamps of a service document are clock seconds.   *)
(***************************************************************************)
EXTENDS Integers, Sequences, FiniteSets, TLC

\* ------------------------------------------------------------------------
\* Bounds of the model
\* ------------------------------------------------------------------------
MaxTime == 2
MaxServices == 2
MaxRepos == 1

\* ------------------------------------------------------------------------
\* Python string helpers (str.rstrip, str.replace, str.split, "in")
\* ------------------------------------------------------------------------
RECURSIVE RStrip(_, _)
RStrip(s, chars) ==
    IF s = <<>> \/ s[Len(s)] \notin chars THEN s
    ELSE RStrip(SubSeq(s, 1, Len(s) - 1), chars)

StartsWithAt(s, p, i) ==
    /\ i + Len(p) - 1 <= Len(s)
    /\ SubSeq(s, i, i + Len(p) - 1) = p

Contains(s, p) == \E i \in 1..(Len(s) + 1) : StartsWithAt(s, p, i)

RECURSIVE ReplaceFrom(_, _, _, _)
ReplaceFrom(s, old, new, i) ==
    IF i > Len(s) THEN <<>>
    ELSE IF StartsWithAt(s, old, i)
         THEN new \o ReplaceFrom(s, old, new, i + Len(old))
         ELSE <<s[i]>> \o ReplaceFrom(s, old, new, i + 1)

Replace(s, old, new) == ReplaceFrom(s, old, new, 1)

RECURSIVE SplitFrom(_, _, _, _)
SplitFrom(s, sep, i, cur) ==
    IF i > Len(s) THEN <<cur>>
    ELSE IF s[i] = sep THEN <<cur>> \o SplitFrom(s, sep, i + 1, <<>>)
         ELSE SplitFrom(s, sep, i + 1, Append(cur, s[i]))

Split(s, sep) == SplitFrom(s, sep, 1, <<>>)

RECURSIVE LStrip(_, _)
LStrip(s, chars) ==
    IF s = <<>> \/ s[1] \notin chars THEN s
    ELSE LStrip(SubSeq(s, 2, Len(s)), chars)

\* str.strip() of a text whose whitespace is the token " "
Strip(s) == LStrip(RStrip(s, {" "}), {" "})

\* re.sub(r'\s+', '-', s): every maximal run of whitespace becomes one hyphen
RECURSIVE HyphenateFrom(_, _)
HyphenateFrom(s, i) ==
    IF i > Len(s) THEN <<>>
    ELSE IF s[i] # " " THEN <<s[i]>> \o HyphenateFrom(s, i + 1)
    ELSE IF i > 1 /\ s[i - 1] = " " THEN HyphenateFrom(s, i + 1)
    ELSE <<"-">> \o HyphenateFrom(s, i + 1)

\* re.sub(r'[^a-zA-Z0-9\s-]', '', s): the tokens that are neither words,
\* whitespace nor hyphens are dropped
DropSpecial(s) == SelectSeq(s, LAMBDA tok : tok # "!")

\* ------------------------------------------------------------------------
\* Literals
\* ------------------------------------------------------------------------
GithubPrefix ==
    <<"h","t","t","p","s",":","/","/","g","i","t","h","u","b",".","c","o","m","/">>
GithubDomain == <<"g","i","t","h","u","b",".","c","o","m">>
GitlabDomain == <<"g","i","t","l","a","b",".","c","o","m">>
BitbucketDomain == <<"b","i","t","b","u","c","k","e","t",".","o","r","g">>
DotGit == <<".","g","i","t">>

UrlWeb == GithubPrefix \o <<"a","/","w","e","b">>
UrlWebGit == UrlWeb \o DotGit
UrlApi == GithubPrefix \o <<"a","/","a","p","i">>
EmptyUrl == <<>>

\* The repository URLs the callers use.
Urls == {UrlWeb, UrlWebGit}

\* A repository whose name holds ".git" inside, and the URL left of it when
\* every ".git" is removed.
UrlPages ==
    GithubPrefix \o <<"a","/","a",".","g","i","t","h","u","b",".","i","o">>
UrlHub == GithubPrefix \o <<"a","/","a","h","u","b",".","i","o">>

\* The URLs find_service_by_repo_url is studied with.
FindUrls == {UrlWeb, UrlWebGit, UrlPages, UrlHub}

UrlInputs == Urls \cup FindUrls \cup {EmptyUrl}

\* Two repositories of one owner, the name of one being the name of the
\* other followed by a letter of ".git".
UrlAp == GithubPrefix \o <<"a","/","a","p">>
KeyUrls == {UrlAp, UrlApi}

\* RepositoryState (repository_state_manager.py:21-26); Raise is a Python
\* exception leaving a function.
NEEDS_ASSIGNMENT == "needs_assignment"
NEEDS_ENRICHMENT == "needs_enrichment"
READY_FOR_CHAT == "ready_for_chat"
CORRUPTED == "corrupted"
Raise == "raise"
RepositoryState == {NEEDS_ASSIGNMENT, NEEDS_ENRICHMENT, READY_FOR_CHAT, CORRUPTED}

MinArtifactSize == 1024

\* Service names are sequences of tokens: lower-case words, " " for a
\* whitespace character, "-" and "!" (a character outside [a-zA-Z0-9\s-]);
\* a service id is the slug of the name followed by the clock second of its
\* creation.
NameSales == <<"sales">>
EmptyName == <<>>
Names == {NameSales}
NoFile == [base |-> <<"#none">>, ts |-> 0]
EmptyId == [base |-> <<>>, ts |-> 0]

VARIABLES
    now,               \* int(time.time()), the clock second
    servicesDirExists, \* whether services_dir exists
    docs,              \* service id -> content of services_dir/<id>.json
    listing,           \* the service ids in the order services_dir lists them
    registry,          \* content of services_registry.json
    artifacts,         \* artifact file name -> size in bytes (databases_dir)
    repoPaths,         \* the local repository directories that exist (repos_dir)
    inflight,          \* the assign_repo_to_service call suspended on analysis
    last,              \* the last completed call and what it returned
    seenReady          \* (repo_url, service_name) pairs reported READY_FOR_CHAT

vars == <<now, servicesDirExists, docs, listing, registry, artifacts, repoPaths,
          inflight, last, seenReady>>

\* ------------------------------------------------------------------------
\* JSON access helpers (dict.get with default, "in", truthiness)
\* ------------------------------------------------------------------------
IsObject(v) == v.shape = "object"
Has(obj, k) == k \in DOMAIN obj
EmptyObject == [shape |-> "object"]
EmptyMap == [shape |-> "object", map |-> <<>>]
RaiseValue == [shape |-> "raise"]

\* ------------------------------------------------------------------------
\* RepositoryStateManager
\* ------------------------------------------------------------------------
\* glob(f"{service_name}-*.json") against <slug>-<ts>.json: the name followed
\* by a hyphen is a prefix of the file name.
GlobMatch(service_name, sid) ==
    IF service_name = <<>> THEN sid.base = <<>>
    ELSE /\ Len(service_name) <= Len(sid.base)
         /\ SubSeq(sid.base, 1, Len(service_name)) = service_name

\* the orders in which a directory holding the files ids can list them: the
\* order is not specified; it stays as it is while no file is created
Listings(ids) ==
    {o \in [1..Cardinality(ids) -> ids] :
         \A i, j \in 1..Cardinality(ids) : i # j => o[i] # o[j]}

\* the listings after a file is created: the new file takes any position
ListingsWith(order, sid) ==
    {o \in Listings({order[i] : i \in DOMAIN order} \cup {sid}) :
         \A i, j \in DOMAIN o :
             (i < j /\ o[i] # sid /\ o[j] # sid) =>
                 \E a, b \in DOMAIN order :
                     a < b /\ order[a] = o[i] /\ order[b] = o[j]}

\* _find_service_file returns the first matching path the directory listing
\* yields (as a set: that file, or NoFile)
_find_service_file(service_name) ==
    IF ~servicesDirExists THEN {NoFile}
    ELSE LET m == {i \in DOMAIN listing : GlobMatch(service_name, listing[i])}
         IN IF m = {} THEN {NoFile}
            ELSE {listing[CHOOSE i \in m : \A j \in m : i <= j]}

\* _get_faiss_path: the artifact file name (without the .pkl suffix)
_get_faiss_path(repo_url) ==
    Replace(Replace(Replace(repo_url, GithubPrefix, <<>>), DotGit, <<>>),
            <<"/">>, <<"_">>)

\* _get_faiss_path tabulated over the URLs in use
FaissPath ==
    [repo_url \in UrlInputs \cup KeyUrls |-> _get_faiss_path(repo_url)]

\* json.load of the service file followed by service_data.get('repositories', {})
\* Raise when the text is not JSON or the value has no .get
LoadRepositories(service_file) ==
    LET service_data == docs[service_file] IN
    IF service_data.shape = "malformed" THEN RaiseValue
    ELSE IF ~IsObject(service_data) THEN RaiseValue
    ELSE IF Has(service_data, "repositories") THEN service_data.repositories
    ELSE EmptyMap

\* repo_url in repositories: key test on a dict, element test on a list,
\* TypeError on null
InRepositories(repo_url, repositories) ==
    CASE repositories.shape = "object" ->
             IF repo_url \in DOMAIN repositories.map THEN "yes" ELSE "no"
      [] repositories.shape = "list" ->
             IF repo_url \in repositories.items THEN "yes" ELSE "no"
      [] OTHER -> Raise

\* body of the try block of _check_service_assignment
CheckServiceAssignmentBody(repo_url, service_file) ==
    IF service_file = NoFile THEN NEEDS_ASSIGNMENT
    ELSE LET repositories == LoadRepositories(service_file) IN
         IF repositories.shape = Raise THEN Raise
         ELSE LET isin == InRepositories(repo_url, repositories) IN
              IF isin = Raise THEN Raise
              ELSE IF isin = "no" THEN NEEDS_ASSIGNMENT
              ELSE READY_FOR_CHAT

Catch(r) == IF r = Raise THEN CORRUPTED ELSE r

\* the handler of _check_service_assignment answering as the "not found"
\* branches do
CheckServiceAssignmentLenient(repo_url, service_file) ==
    LET r == CheckServiceAssignmentBody(repo_url, service_file) IN
    IF r = Raise THEN NEEDS_ASSIGNMENT ELSE r

_check_service_assignment(repo_url, service_file) ==
    Catch(CheckServiceAssignmentBody(repo_url, service_file))

\* body of the try block of _check_enrichment_completion
CheckEnrichmentCompletionBody(repo_url, service_file) ==
    IF service_file = NoFile THEN NEEDS_ASSIGNMENT
    ELSE LET repositories == LoadRepositories(service_file) IN
         IF repositories.shape = Raise THEN Raise
         ELSE IF repositories.shape # "object" THEN Raise
         ELSE LET repo_entry == IF repo_url \in DOMAIN repositories.map
                                THEN repositories.map[repo_url]
                                ELSE EmptyObject
              IN IF ~IsObject(repo_entry) THEN Raise
                 ELSE LET is_enriched == IF Has(repo_entry, "enriched")
                                         THEN repo_entry.enriched ELSE FALSE
                          enrichment_timestamp ==
                              IF Has(repo_entry, "analysis_timestamp")
                              THEN repo_entry.analysis_timestamp ELSE FALSE
                      IN IF ~is_enriched THEN NEEDS_ENRICHMENT
                         ELSE IF ~enrichment_timestamp THEN NEEDS_ENRICHMENT
                         ELSE READY_FOR_CHAT

\* _check_enrichment_completion without the timestamp validation
CheckEnrichmentFlagOnly(repo_url, service_file) ==
    LET r == Catch(CheckEnrichmentCompletionBody(repo_url, service_file)) IN
    IF /\ r = NEEDS_ENRICHMENT
       /\ service_file # NoFile
       /\ LoadRepositories(service_file).shape = "object"
       /\ repo_url \in DOMAIN LoadRepositories(service_file).map
       /\ IsObject(LoadRepositories(service_file).map[repo_url])
       /\ Has(LoadRepositories(service_file).map[repo_url], "enriched")
       /\ LoadRepositories(service_file).map[repo_url].enriched
    THEN READY_FOR_CHAT ELSE r

_check_enrichment_completion(repo_url, service_file) ==
    Catch(CheckEnrichmentCompletionBody(repo_url, service_file))

\* body of the try block of _validate_data_integrity
ValidateDataIntegrityBody(repo_url) ==
    LET faiss_path == FaissPath[repo_url] IN
    IF faiss_path \notin DOMAIN artifacts THEN NEEDS_ENRICHMENT
    ELSE IF artifacts[faiss_path] < MinArtifactSize THEN CORRUPTED
    ELSE READY_FOR_CHAT

\* _validate_data_integrity without the minimum-size test
ValidateExistenceOnly(repo_url) ==
    IF FaissPath[repo_url] \notin DOMAIN artifacts THEN NEEDS_ENRICHMENT
    ELSE READY_FOR_CHAT

_validate_data_integrity(repo_url) == Catch(ValidateDataIntegrityBody(repo_url))

\* The three phases written without any exception handler.
StateNoCatch(repo_url, service_file) ==
    LET a == CheckServiceAssignmentBody(repo_url, service_file) IN
    IF a # READY_FOR_CHAT THEN a
    ELSE LET e == CheckEnrichmentCompletionBody(repo_url, service_file) IN
         IF e # READY_FOR_CHAT THEN e
         ELSE ValidateDataIntegrityBody(repo_url)

\* get_repository_state when the directory listing yields service_file first
StateVia(repo_url, service_file) ==
    LET assignment_state == _check_service_assignment(repo_url, service_file) IN
    IF assignment_state # READY_FOR_CHAT THEN assignment_state
    ELSE LET enrichment_state ==
                 _check_enrichment_completion(repo_url, service_file) IN
         IF enrichment_state # READY_FOR_CHAT THEN enrichment_state
         ELSE _validate_data_integrity(repo_url)

\* every result get_repository_state can return in the current store
get_repository_state(repo_url, service_name) ==
    {StateVia(repo_url, f) : f \in _find_service_file(service_name)}

\* should_skip_enrichment_for_chat: state == READY_FOR_CHAT, for every state
\* get_repository_state can return
should_skip_enrichment_for_chat(repo_url, service_name) ==
    {state = READY_FOR_CHAT :
         state \in get_repository_state(repo_url, service_name)}

\* should_run_full_enrichment_for_new_repo with CORRUPTED left out of the list
ShouldRunWithoutCorrupted(repo_url, service_name) ==
    {(state \in {NEEDS_ASSIGNMENT, NEEDS_ENRICHMENT}) :
         state \in get_repository_state(repo_url, service_name)}

\* should_run_full_enrichment_for_new_repo: state in [NEEDS_ASSIGNMENT,
\* NEEDS_ENRICHMENT, CORRUPTED]
should_run_full_enrichment_for_new_repo(repo_url, service_name) ==
    {(state \in {NEEDS_ASSIGNMENT, NEEDS_ENRICHMENT, CORRUPTED}) :
         state \in get_repository_state(repo_url, service_name)}

\* ------------------------------------------------------------------------
\* ServiceManager: registry
\* ------------------------------------------------------------------------
Callers == {1, 2}
Idle == [active |-> FALSE]

\* _generate_service_id: the slug of the name, a hyphen, int(time.time())
_generate_service_id(name, t) ==
    [base |-> HyphenateFrom(Strip(DropSpecial(name)), 1), ts |-> t]

\* _service_exists never finding the file
ServiceExistsNever(service_id) == FALSE

\* _service_exists
_service_exists(service_id) == service_id \in DOMAIN docs

\* the summary _update_registry extracts from one service document
Summary(service_data) ==
    [id |-> service_data.id,
     name |-> service_data.name,
     created_at |-> service_data.created_at,
     last_updated |-> service_data.last_updated,
     repository_count |-> IF Has(service_data, "repository_count")
                          THEN service_data.repository_count ELSE 0]

\* a document _update_registry does not skip
ValidDoc(service_data) ==
    /\ IsObject(service_data)
    /\ {"id", "name", "created_at", "last_updated"} \subseteq DOMAIN service_data

\* JSON null in the place of the created_at text of a service document
NullTime == 0

\* the documents whose summary the scan of _update_registry extracts
Extracted(D) == {sid \in DOMAIN D : ValidDoc(D[sid])}

\* services.sort(key=created_at) raises TypeError: two summaries or more
\* are compared and one created_at is None, which Python orders with nothing
SortRaises(D) ==
    /\ Cardinality(Extracted(D)) >= 2
    /\ \E sid \in Extracted(D) : D[sid].created_at = NullTime

\* the orders in which the scan followed by the stable sort on created_at
\* (newest first) can leave the documents: ties keep the listing order,
\* which is not specified
SortedOrders(D) ==
    LET S == {sid \in DOMAIN D : ValidDoc(D[sid])}
        n == Cardinality(S)
    IN {o \in [1..n -> S] :
            /\ \A i, j \in 1..n : i # j => o[i] # o[j]
            /\ \A i, j \in 1..n :
                   i < j => D[o[i]].created_at >= D[o[j]].created_at}

\* _update_registry: the possible contents of services_registry.json after
\* a rebuild from the documents D (its own last_updated, which nothing
\* reads, is left out)
_update_registry(D) ==
    IF SortRaises(D) THEN {registry}
    ELSE
    {[present |-> TRUE,
      services |-> [i \in DOMAIN o |-> Summary(D[o[i]])],
      total_services |-> Len(o)] : o \in SortedOrders(D)}

\* list.sort(key=created_at, reverse=True) by insertions: the sort is
\* stable, so a summary goes behind every summary whose created_at is not
\* older than its own
InsertSummary(sorted, summary) ==
    LET ahead == {i \in DOMAIN sorted :
                     sorted[i].created_at >= summary.created_at}
        k == Cardinality(ahead)
    IN SubSeq(sorted, 1, k) \o <<summary>> \o SubSeq(sorted, k + 1, Len(sorted))

RECURSIVE SortSummaries(_, _)
SortSummaries(services, i) ==
    IF i = 0 THEN <<>>
    ELSE InsertSummary(SortSummaries(services, i - 1), services[i])

\* _update_registry when the directory yields the files in the order scan:
\* the summaries of the files it does not skip, sorted
RebuildFrom(D, scan) ==
    LET kept == SelectSeq(scan, LAMBDA sid : ValidDoc(D[sid]))
        services == [i \in DOMAIN kept |-> Summary(D[kept[i]])]
        sorted == SortSummaries(services, Len(services))
    IN [present |-> TRUE, services |-> sorted, total_services |-> Len(sorted)]

\* the ids the registry index lists
RegistryIds ==
    IF registry.present /\ Has(registry, "services")
    THEN {registry.services[i].id : i \in DOMAIN registry.services}
    ELSE {}

\* create_service testing the name for emptiness only, not for whitespace
CreateWithoutStrip(name) ==
    /\ Cardinality(DOMAIN docs) < MaxServices
    /\ \A c \in Callers : ~inflight[c].active
    /\ IF name = EmptyName
       THEN /\ last' = [op |-> "create_service", name |-> name,
                        ret |-> "ValueError", again |-> {}]
            /\ UNCHANGED <<docs, listing, registry>>
       ELSE LET service_id == [base |-> HyphenateFrom(Strip(DropSpecial(name)), 1),
                               ts |-> now] IN
            IF service_id \in DOMAIN docs
            THEN /\ last' = [op |-> "create_service", name |-> name,
                             ret |-> "ValueError", again |-> {}]
                 /\ UNCHANGED <<docs, listing, registry>>
            ELSE /\ docs' = (service_id :> [shape |-> "object",
                                            id |-> service_id,
                                            name |-> Strip(name),
                                            created_at |-> now,
                                            last_updated |-> now,
                                            repositories |->
                                                [shape |-> "object",
                                                 map |-> <<>>],
                                            repository_count |-> 0]) @@ docs
                 /\ listing' \in ListingsWith(listing, service_id)
                 /\ registry' \in _update_registry(docs')
                 /\ last' = [op |-> "create_service", name |-> name,
                             ret |-> "ok", id |-> service_id,
                             listed |-> FALSE, again |-> {}]
    /\ UNCHANGED <<now, servicesDirExists, artifacts, repoPaths, inflight,
                   seenReady>>

\* list_services raising when the index is absent
ListServicesStrict ==
    IF ~registry.present THEN [raised |-> TRUE, services |-> <<>>]
    ELSE IF Has(registry, "shape") /\ registry.shape # "object"
         THEN [raised |-> FALSE, services |-> <<>>]
    ELSE IF Has(registry, "services")
         THEN [raised |-> FALSE, services |-> registry.services]
    ELSE [raised |-> FALSE, services |-> <<>>]

\* list_services: [] when the index is absent, registry.get("services", [])
\* when it is a JSON object, [] from the except clause otherwise; raised:
\* whether an exception leaves the call
list_services ==
    IF ~registry.present THEN [raised |-> FALSE, services |-> <<>>]
    ELSE IF Has(registry, "shape") /\ registry.shape # "object"
         THEN [raised |-> FALSE, services |-> <<>>]
    ELSE IF Has(registry, "services")
         THEN [raised |-> FALSE, services |-> registry.services]
    ELSE [raised |-> FALSE, services |-> <<>>]

\* whether the last completed call was a create_service(name) that returned
\* an id, and that id
CreatedBefore(name) ==
    IF last.op = "create_service" /\ last.name = name /\ last.ret = "ok"
    THEN {last.id} ELSE {}

\* create_service(name)
create_service(name) ==
    /\ Cardinality(DOMAIN docs) < MaxServices
    /\ \A c \in Callers : ~inflight[c].active
    /\ IF name = EmptyName \/ Strip(name) = EmptyName
       THEN /\ last' = [op |-> "create_service", name |-> name,
                        ret |-> "ValueError", again |-> CreatedBefore(name)]
            /\ UNCHANGED <<docs, listing, registry>>
       ELSE LET service_id == _generate_service_id(name, now) IN
            IF _service_exists(service_id)
            THEN /\ last' = [op |-> "create_service", name |-> name,
                             ret |-> "ValueError",
                             again |-> CreatedBefore(name)]
                 /\ UNCHANGED <<docs, listing, registry>>
            ELSE /\ docs' = (service_id :> [shape |-> "object",
                                            id |-> service_id,
                                            name |-> Strip(name),
                                            created_at |-> now,
                                            last_updated |-> now,
                                            repositories |-> EmptyMap,
                                            repository_count |-> 0]) @@ docs
                 /\ listing' \in ListingsWith(listing, service_id)
                 /\ registry' \in _update_registry(docs')
                 /\ last' = [op |-> "create_service", name |-> name,
                             ret |-> "ok", id |-> service_id,
                             listed |-> service_id \in RegistryIds,
                             again |-> CreatedBefore(name)]
    /\ UNCHANGED <<now, servicesDirExists, artifacts, repoPaths, inflight,
                   seenReady>>

\* a call of list_services and its result
ListServices ==
    /\ last' = [op |-> "list", ret |-> list_services]
    /\ UNCHANGED <<now, servicesDirExists, listing, docs, registry, artifacts,
                   repoPaths, inflight, seenReady>>

\* the index is deleted and _update_registry runs while the directory
\* yields the files in the order scan
RebuildRegistry(scan) ==
    /\ ~SortRaises(docs)
    /\ registry' = RebuildFrom(docs, scan)
    /\ last' = [op |-> "rebuild", scan |-> scan]
    /\ UNCHANGED <<now, servicesDirExists, listing, docs, artifacts,
                   repoPaths, inflight, seenReady>>

\* the clock advances by one second
Tick ==
    /\ now < MaxTime
    /\ now' = now + 1
    /\ UNCHANGED <<servicesDirExists, listing, docs, registry, artifacts,
                   repoPaths, inflight, last, seenReady>>

\* ------------------------------------------------------------------------
\* ServiceManager: repository analysis
\* ------------------------------------------------------------------------
NoPath == <<"#none">>
NoKey == <<"#none">>
Chr(str) == <<str>>
Msgs == {"", "timeout"}
ContextCap == 10000
ContextKeep == 8000
ContextHeader == 20

\* _get_repo_key: rstrip('/') then rstrip('.git'), which strips every
\* trailing character that is one of '.', 'g', 'i', 't'
_get_repo_key(repo_url) == RStrip(RStrip(repo_url, {"/"}), {".", "g", "i", "t"})

\* _get_repo_path: the directory name under repos_dir, or NoPath for None
_get_repo_path(repo_url) ==
    IF \/ Contains(repo_url, GithubDomain)
       \/ Contains(repo_url, GitlabDomain)
       \/ Contains(repo_url, BitbucketDomain)
    THEN LET parts == Split(RStrip(repo_url, {"/"}), "/") IN
         IF Len(parts) >= 5
         THEN parts[Len(parts) - 1] \o <<"_">>
                  \o Replace(parts[Len(parts)], DotGit, <<>>)
         ELSE NoPath
    ELSE NoPath

\* _get_repo_path and _get_repo_key tabulated over the URLs in use
RepoPath == [repo_url \in UrlInputs \cup KeyUrls |-> _get_repo_path(repo_url)]
RepoKey == [repo_url \in UrlInputs \cup KeyUrls |-> _get_repo_key(repo_url)]

\* not repo_path or not repo_path.exists(), negated
PathExists(repo_url) ==
    /\ RepoPath[repo_url] # NoPath
    /\ RepoPath[repo_url] \in repoPaths

\* What the external capability answers (inputs of the model).
StrategyAnswers == {"standard", "progressive", Raise}

Protocol(type) ==
    [protocol_type |-> type, endpoints |-> <<>>,
     configuration_details |-> <<"configured">>, evidence_files |-> <<>>]

Response(protocols) ==
    [kind |-> "ok", role |-> "BACKEND_SERVICE",
     tech_stack |-> [primary_stack |-> "PYTHON", secondary_stacks |-> <<>>,
                     frameworks |-> <<>>, evidence_files |-> <<>>,
                     confidence |-> "high", reasoning |-> <<"setup.py">>],
     communication_protocols |-> protocols,
     deployment_patterns |-> <<>>, confidence |-> "high",
     reasoning |-> <<"python service">>]

StandardOutcomes ==
    {Response(<<Protocol("HTTP/HTTPS"), Protocol("HTTP/HTTPS")>>),
     [kind |-> "none"]}
    \cup {[kind |-> "raise", msg |-> m] : m \in Msgs}

\* the entry stored when AnalyzeRepository answered
StandardEntry(repo_url, response) ==
    [shape |-> "object",
     url |-> repo_url,
     local_path |-> RepoPath[repo_url],
     role |-> response.role,
     tech_stack |-> response.tech_stack,
     communication_protocols |->
         [i \in DOMAIN response.communication_protocols |->
             [protocol_type |-> response.communication_protocols[i].protocol_type,
              endpoints |-> response.communication_protocols[i].endpoints,
              configuration_details |->
                  response.communication_protocols[i].configuration_details,
              evidence_files |->
                  response.communication_protocols[i].evidence_files]],
     deployment_patterns |-> response.deployment_patterns,
     confidence |-> response.confidence,
     reasoning |-> response.reasoning,
     analysis_timestamp |-> TRUE,
     enriched |-> TRUE]

\* the handler of a raising AnalyzeRepository storing an entry as if the
\* analysis had answered
FallbackAsAnalysed(repo_url, msg) ==
    StandardEntry(repo_url, Response(<<>>))

\* the entry stored when AnalyzeRepository raised
StandardFallbackEntry(repo_url, msg) ==
    [shape |-> "object",
     url |-> repo_url,
     local_path |-> RepoPath[repo_url],
     role |-> "UNKNOWN",
     tech_stack |-> [primary_stack |-> "UNKNOWN", secondary_stacks |-> <<>>,
                     frameworks |-> <<>>, evidence_files |-> <<>>,
                     confidence |-> "low",
                     reasoning |-> <<"BAML analysis failed: ", msg>>],
     communication_protocols |-> <<>>,
     deployment_patterns |-> <<>>,
     confidence |-> "low",
     reasoning |-> <<"BAML analysis failed: ", msg>>,
     analysis_timestamp |-> TRUE,
     enriched |-> FALSE,
     baml_error |-> <<msg>>]

\* service_data["repositories"][key] = entry
PutEntry(service_data, key, entry) ==
    [service_data EXCEPT !.repositories.map = (key :> entry) @@ @]

\* the three assignments of the standard path: entry, repository_count,
\* last_updated
StoreStandard(service_data, repo_url, entry, t) ==
    LET d == PutEntry(service_data, repo_url, entry) IN
    [d EXCEPT !.repository_count = Cardinality(DOMAIN d.repositories.map),
              !.last_updated = t]

\* _analyze_repository_with_baml: what it returns, the service_data it wrote
\* (if it wrote), the key it stored under and the external calls it made
_analyze_repository_with_baml(repo_url, service_data, outcome, t) ==
    IF ~PathExists(repo_url)
    THEN [ret |-> FALSE, wrote |-> FALSE, service_data |-> service_data,
          key |-> NoKey, calls |-> 0, analysis |-> "nopath"]
    ELSE CASE outcome.kind = "ok" ->
                [ret |-> TRUE, wrote |-> TRUE,
                 service_data |->
                     StoreStandard(service_data, repo_url,
                                   StandardEntry(repo_url, outcome), t),
                 key |-> repo_url, calls |-> 1, analysis |-> "ok"]
           [] outcome.kind = "none" ->
                [ret |-> FALSE, wrote |-> FALSE, service_data |-> service_data,
                 key |-> NoKey, calls |-> 1, analysis |-> "none"]
           [] outcome.kind = "raise" ->
                [ret |-> FALSE, wrote |-> TRUE,
                 service_data |->
                     StoreStandard(service_data, repo_url,
                                   StandardFallbackEntry(repo_url, outcome.msg),
                                   t),
                 key |-> repo_url, calls |-> 1, analysis |-> "raise"]

\* ------------------------------------------------------------------------
\* ServiceManager: progressive analysis
\* ------------------------------------------------------------------------
\* A batch of the plan; readable says whether _collect_batch_content yields
\* text that is not blank.  A batch answer is a text, known by its length
\* and by which of the probed words occur in its lower-case form.
CatApi == <<"A", "P", "I">>
CatDocs == <<"d", "o", "c", "s">>
CatCore == <<"c", "o", "r", "e">>
Batch(category, readable) ==
    [category |-> category, description |-> category, readable |-> readable]

PlanFull ==
    [priority_batches |-> <<Batch(CatApi, TRUE), Batch(CatDocs, FALSE),
                            Batch(CatCore, TRUE)>>,
     repository_type |-> "PYTHON", analysis_strategy |-> "core-first"]
PlanEmpty ==
    [priority_batches |-> <<>>, repository_type |-> "RUST",
     analysis_strategy |-> "none"]

Text(len, words) == [kind |-> "text", len |-> len, words |-> words]
TextHttp == Text(6000, {"http", "api"})
TextGrpc == Text(4500, {"grpc", "docker", "http"})
BatchRaise(msg) == [kind |-> "raise", msg |-> msg]

\* the runs of the external capability: PrioritizeRepositoryFiles raises, or
\* answers a plan and AnalyzeRepositoryBatch answers script[i] for batch i
ProgressiveRuns ==
    {[kind |-> "plan_raise", msg |-> m] : m \in Msgs}
    \cup {[kind |-> "plan", plan |-> PlanFull,
           script |-> <<TextHttp, TextHttp, TextGrpc>>]}
    \cup {[kind |-> "plan", plan |-> PlanFull,
           script |-> <<TextHttp, TextHttp, BatchRaise(m)>>] : m \in Msgs}

\* the batch loop from batch i on: the batch results, the accumulated
\* context length, the context each call received, and whether a call raised
RECURSIVE RunBatches(_, _, _, _, _, _)
RunBatches(plan, script, i, batch_results, accumulated_context, contexts) ==
    IF i > Len(plan.priority_batches)
    THEN [raised |-> FALSE, msg |-> "", batch_results |-> batch_results,
          contexts |-> contexts]
    ELSE LET batch == plan.priority_batches[i] IN
         IF ~batch.readable
         THEN RunBatches(plan, script, i + 1, batch_results,
                         accumulated_context, contexts)
         ELSE IF script[i].kind = "raise"
         THEN [raised |-> TRUE, msg |-> script[i].msg,
               batch_results |-> batch_results,
               contexts |-> Append(contexts, accumulated_context)]
         ELSE LET grown == accumulated_context + ContextHeader
                               + Len(batch.category) + script[i].len
                  trimmed == IF grown > ContextCap THEN ContextKeep ELSE grown
              IN RunBatches(plan, script, i + 1,
                            Append(batch_results,
                                   [batch_category |-> batch.category,
                                    analysis |-> script[i]]),
                            trimmed,
                            Append(contexts, accumulated_context))

DetectedIn(category) == <<"Detected in ", category, " analysis">>

\* the protocols one batch result appends, in the order of the three tests
ProtocolsOf(batch_result) ==
    LET w == batch_result.analysis.words
        p(type) == [protocol_type |-> type, endpoints |-> <<>>,
                    configuration_details |->
                        DetectedIn(batch_result.batch_category),
                    evidence_files |-> <<>>]
    IN (IF w \cap {"http", "rest", "api"} # {} THEN <<p("HTTP/HTTPS")>> ELSE <<>>)
       \o (IF "websocket" \in w THEN <<p("WebSocket")>> ELSE <<>>)
       \o (IF "grpc" \in w THEN <<p("gRPC")>> ELSE <<>>)

RECURSIVE AllProtocols(_, _)
AllProtocols(batch_results, i) ==
    IF i > Len(batch_results) THEN <<>>
    ELSE ProtocolsOf(batch_results[i]) \o AllProtocols(batch_results, i + 1)

\* no removal of duplicates
KeepAll(protocols, i, seen_types) == protocols

\* "Remove duplicates": keep the first entry of every protocol_type
RECURSIVE Unique(_, _, _)
Unique(protocols, i, seen_types) ==
    IF i > Len(protocols) THEN <<>>
    ELSE IF protocols[i].protocol_type \in seen_types
         THEN Unique(protocols, i + 1, seen_types)
         ELSE <<protocols[i]>>
              \o Unique(protocols, i + 1,
                        seen_types \cup {protocols[i].protocol_type})

_extract_protocols_from_batches(batch_results) ==
    Unique(AllProtocols(batch_results, 1), 1, {})

role_mapping(repository_type) ==
    CASE repository_type = "PYTHON" -> "BACKEND_SERVICE"
      [] repository_type = "NODEJS_JAVASCRIPT" -> "FRONTEND_APP"
      [] repository_type = "GO" -> "MICROSERVICE"
      [] repository_type = "JAVA_MAVEN" -> "BACKEND_SERVICE"
      [] OTHER -> "LIBRARY"

_synthesize_progressive_analysis(file_plan, batch_results) ==
    [role |-> role_mapping(file_plan.repository_type),
     tech_stack |-> [primary_stack |-> file_plan.repository_type,
                     secondary_stacks |-> <<>>, frameworks |-> <<>>,
                     evidence_files |-> <<>>, confidence |-> "medium",
                     reasoning |-> <<"Progressive analysis of ",
                                     ToString(Len(batch_results)),
                                     " batches using ",
                                     file_plan.analysis_strategy>>],
     communication_protocols |-> _extract_protocols_from_batches(batch_results),
     deployment_patterns |->
         SelectSeq([i \in DOMAIN batch_results |-> batch_results[i].analysis],
                   LAMBDA a : a.words \cap {"deploy", "docker"} # {}),
     confidence |-> "medium",
     reasoning |-> <<"Synthesized from progressive analysis of ",
                     ToString(Len(batch_results)), " file batches">>]

ProgressiveEntry(repo_url, file_plan, batch_results) ==
    [shape |-> "object",
     url |-> repo_url,
     analysis_type |-> "progressive_baml",
     total_batches_processed |-> Len(batch_results),
     repository_type |-> file_plan.repository_type,
     analysis_strategy |-> file_plan.analysis_strategy]
    @@ _synthesize_progressive_analysis(file_plan, batch_results)

ProgressiveFallbackEntry(repo_url, msg) ==
    [shape |-> "object",
     url |-> repo_url,
     analysis_type |-> "progressive_baml_failed",
     error |-> <<msg>>,
     role |-> "UNKNOWN",
     tech_stack |-> [primary_stack |-> "UNKNOWN", confidence |-> "low",
                     reasoning |-> <<"Progressive analysis failed: ", msg>>],
     communication_protocols |-> <<>>,
     deployment_patterns |-> <<>>]

\* _analyze_large_repository_with_progressive_baml
_analyze_large_repository_with_progressive_baml(repo_url, service_data, run) ==
    IF ~PathExists(repo_url)
    THEN [ret |-> FALSE, wrote |-> FALSE, service_data |-> service_data,
          key |-> NoKey, calls |-> 0, analysis |-> "nopath"]
    ELSE LET repo_key == RepoKey[repo_url] IN
         IF run.kind = "plan_raise"
         THEN [ret |-> FALSE, wrote |-> TRUE,
               service_data |->
                   PutEntry(service_data, repo_key,
                            ProgressiveFallbackEntry(repo_url, run.msg)),
               key |-> repo_key, calls |-> 1, analysis |-> "raise"]
         ELSE LET loop == RunBatches(run.plan, run.script, 1, <<>>, 0, <<>>) IN
              IF loop.raised
              THEN [ret |-> FALSE, wrote |-> TRUE,
                    service_data |->
                        PutEntry(service_data, repo_key,
                                 ProgressiveFallbackEntry(repo_url, loop.msg)),
                    key |-> repo_key, calls |-> 1 + Len(loop.contexts),
                    analysis |-> "raise"]
              ELSE [ret |-> TRUE, wrote |-> TRUE,
                    service_data |->
                        PutEntry(service_data, repo_key,
                                 ProgressiveEntry(repo_url, run.plan,
                                                  loop.batch_results)),
                    key |-> repo_key, calls |-> 1 + Len(loop.contexts),
                    analysis |-> "ok"]

\* ------------------------------------------------------------------------
\* ServiceManager.assign_repo_to_service
\* ------------------------------------------------------------------------
\* strategy selection handing on whatever the call did, a raise included
DetectUnguarded(repo_url, answer) ==
    IF ~PathExists(repo_url) THEN [strategy |-> "standard", calls |-> 0]
    ELSE [strategy |-> answer, calls |-> 1]

\* _detect_analysis_strategy: the strategy and the external calls made
_detect_analysis_strategy(repo_url, answer) ==
    IF ~PathExists(repo_url) THEN [strategy |-> "standard", calls |-> 0]
    ELSE IF answer = Raise THEN [strategy |-> "standard", calls |-> 1]
    ELSE [strategy |-> answer, calls |-> 1]

\* the repositories of a service document, {} when the member is missing
RepositoriesOf(service_data) ==
    IF Has(service_data, "repositories") THEN service_data.repositories
    ELSE EmptyMap

\* repo_url.rstrip('/').replace('.git', '')
NormalizeUrl(url) == Replace(RStrip(url, {"/"}), DotGit, <<>>)

\* whether the scan of find_service_by_repo_url stops at the file of sid:
\* the file is a JSON object whose repositories mapping holds an entry whose
\* url member (the key when there is none), normalized, equals
\* normalized_url.  A file that is not an object, or whose repositories is
\* not a mapping, raises and is skipped; the registry index, which the glob
\* yields too, holds no repositories member.
FindMatches(normalized_url, sid) ==
    /\ IsObject(docs[sid])
    /\ RepositoriesOf(docs[sid]).shape = "object"
    /\ \E repo_key \in DOMAIN RepositoriesOf(docs[sid]).map :
           LET repo_info == RepositoriesOf(docs[sid]).map[repo_key] IN
           /\ IsObject(repo_info)
           /\ NormalizeUrl(IF Has(repo_info, "url") THEN repo_info.url
                           ELSE repo_key) = normalized_url

\* find_service_by_repo_url: the document of the first listed file that
\* matches, with service_id (the stem of the file name) added; None otherwise
find_service_by_repo_url(repo_url) ==
    LET normalized_url == NormalizeUrl(repo_url)
        m == {i \in DOMAIN listing : FindMatches(normalized_url, listing[i])}
    IN IF m = {} THEN [found |-> FALSE]
       ELSE LET sid == listing[CHOOSE i \in m : \A j \in m : i <= j]
            IN [found |-> TRUE, service_id |-> sid, service_data |-> docs[sid]]

\* the number of repository entries of a service document, of a store
EntryCount(service_data) == Cardinality(DOMAIN RepositoriesOf(service_data).map)

RECURSIVE SumEntries(_, _)
SumEntries(D, ids) ==
    IF ids = {} THEN 0
    ELSE LET service_id == CHOOSE x \in ids : TRUE
         IN EntryCount(D[service_id]) + SumEntries(D, ids \ {service_id})

TotalEntries(D) == SumEntries(D, DOMAIN D)

AssignResult(service_id, repo_url, ret, strategy, analysis, calls, key, changed) ==
    [op |-> "assign", service_id |-> service_id, repo_url |-> repo_url,
     ret |-> ret, strategy |-> strategy, analysis |-> analysis,
     ext_calls |-> calls, key |-> key, changed |-> changed,
     repeat |-> /\ last.op = "assign"
                /\ last.service_id = service_id
                /\ last.repo_url = repo_url
                /\ last.ret]

\* Phases 1 and 2 of assign_repo_to_service on the service_data it loaded:
\* strategy selection, then the analysis of the selected strategy
Analyse(repo_url, service_data, answer, outcome, run, t) ==
    LET detect == _detect_analysis_strategy(repo_url, answer)
        analysis_strategy == detect.strategy
        res == IF analysis_strategy = "progressive"
               THEN _analyze_large_repository_with_progressive_baml(
                        repo_url, service_data, run)
               ELSE _analyze_repository_with_baml(
                        repo_url, service_data, outcome, t)
    IN [res EXCEPT !.calls = detect.calls + res.calls]
       @@ [branch |-> IF analysis_strategy = "progressive"
                      THEN "progressive" ELSE "standard"]

\* assign_repo_to_service validating service_id only
AssignWithoutUrlValidation(service_id, repo_url, answer, outcome, run) ==
    /\ \A c \in Callers : ~inflight[c].active
    /\ IF service_id = EmptyId \/ service_id \notin DOMAIN docs
       THEN /\ last' = AssignResult(service_id, repo_url, FALSE, "none",
                                    "skipped", 0, NoKey, FALSE)
            /\ UNCHANGED <<docs, registry>>
       ELSE LET service_data == docs[service_id]
                res == Analyse(repo_url, service_data, answer, outcome, run,
                               now)
            IN /\ docs' = IF res.wrote
                          THEN [docs EXCEPT ![service_id] = res.service_data]
                          ELSE docs
               /\ registry' \in _update_registry(docs')
               /\ last' = AssignResult(service_id, repo_url, TRUE, res.branch,
                                       res.analysis, res.calls, res.key,
                                       RepositoriesOf(docs'[service_id])
                                         # RepositoriesOf(docs[service_id]))
    /\ UNCHANGED <<now, servicesDirExists, listing, artifacts, repoPaths,
                   inflight, seenReady>>

\* assign_repo_to_service(service_id, repo_url), run to completion: the
\* validation, the load of the document, the already-assigned test, the
\* analysis with its write of the service file, the registry rebuild, and
\* the return value (True in both branches of "if analysis_success")
assign_repo_to_service(service_id, repo_url, answer, outcome, run) ==
    /\ \A c \in Callers : ~inflight[c].active
    /\ IF service_id = EmptyId \/ repo_url = EmptyUrl
          \/ service_id \notin DOMAIN docs
       THEN /\ last' = AssignResult(service_id, repo_url, FALSE, "none",
                                    "skipped", 0, NoKey, FALSE)
            /\ UNCHANGED <<docs, registry>>
       ELSE LET service_data == docs[service_id] IN
            IF InRepositories(repo_url, RepositoriesOf(service_data)) = "yes"
            THEN /\ last' = AssignResult(service_id, repo_url, TRUE, "none",
                                         "skipped", 0, NoKey, FALSE)
                 /\ UNCHANGED <<docs, registry>>
            ELSE LET res == Analyse(repo_url, service_data, answer, outcome,
                                    run, now)
                 IN /\ docs' = IF res.wrote
                               THEN [docs EXCEPT ![service_id] = res.service_data]
                               ELSE docs
                    /\ TotalEntries(docs') <= MaxRepos
                    /\ registry' \in _update_registry(docs')
                    /\ last' = AssignResult(service_id, repo_url, TRUE,
                                            res.branch, res.analysis,
                                            res.calls, res.key,
                                            RepositoriesOf(docs'[service_id])
                                              # RepositoriesOf(docs[service_id]))
    /\ UNCHANGED <<now, servicesDirExists, listing, artifacts, repoPaths,
                   inflight, seenReady>>

\* The same call split at its awaits, for callers that overlap.
\* AssignBegin: up to the first await; the call returns at once or is
\* suspended on the external capability holding the service_data it loaded.
AssignBegin(c, service_id, repo_url) ==
    /\ ~inflight[c].active
    /\ IF service_id = EmptyId \/ repo_url = EmptyUrl
          \/ service_id \notin DOMAIN docs
       THEN /\ last' = AssignResult(service_id, repo_url, FALSE, "none",
                                    "skipped", 0, NoKey, FALSE)
            /\ UNCHANGED inflight
       ELSE LET service_data == docs[service_id] IN
            IF InRepositories(repo_url, RepositoriesOf(service_data)) = "yes"
            THEN /\ last' = AssignResult(service_id, repo_url, TRUE, "none",
                                         "skipped", 0, NoKey, FALSE)
                 /\ UNCHANGED inflight
            ELSE /\ inflight' = [inflight EXCEPT ![c] =
                        [active |-> TRUE, service_id |-> service_id,
                         repo_url |-> repo_url, service_data |-> service_data,
                         awaiting |-> "standard"]]
                 /\ UNCHANGED last
    /\ UNCHANGED <<now, servicesDirExists, listing, docs, registry, artifacts,
                   repoPaths, seenReady>>

\* AssignFinish: the external calls have answered; the write of the service
\* file from the service_data loaded at AssignBegin, the registry rebuild,
\* the return
AssignFinish(c, answer, outcome, run) ==
    /\ inflight[c].active
    /\ LET service_id == inflight[c].service_id
           repo_url == inflight[c].repo_url
           res == Analyse(repo_url, inflight[c].service_data, answer, outcome,
                          run, now)
       IN /\ docs' = IF res.wrote
                     THEN [docs EXCEPT ![service_id] = res.service_data]
                     ELSE docs
          /\ TotalEntries(docs') <= MaxRepos
          /\ registry' \in _update_registry(docs')
          /\ last' = AssignResult(service_id, repo_url, TRUE, res.branch,
                                  res.analysis, res.calls, res.key,
                                  RepositoriesOf(docs'[service_id])
                                      # RepositoriesOf(docs[service_id]))
    /\ inflight' = [inflight EXCEPT ![c] = Idle]
    /\ UNCHANGED <<now, servicesDirExists, listing, artifacts, repoPaths,
                   seenReady>>

\* ------------------------------------------------------------------------
\* RepositoryStateManager: calls
\* ------------------------------------------------------------------------
\* mark_enrichment_complete writing a new entry that holds the two members
\* only, in place of updating the entry it found
MarkReplacingEntry(repo_url, service_name) ==
    /\ \A c \in Callers : ~inflight[c].active
    /\ \E service_file \in _find_service_file(service_name) :
         LET repositories == IF service_file = NoFile THEN RaiseValue
                             ELSE LoadRepositories(service_file)
             writable == /\ service_file # NoFile
                         /\ repositories.shape = "object"
                         /\ InRepositories(repo_url, repositories) = "yes"
                         /\ IsObject(repositories.map[repo_url])
         IN IF writable
            THEN /\ docs' = [docs EXCEPT
                       ![service_file].repositories.map[repo_url] =
                           [shape |-> "object", enriched |-> TRUE,
                            enrichment_completed_at |-> TRUE]]
                 /\ last' = [op |-> "mark", repo_url |-> repo_url,
                             service_name |-> service_name, ret |-> TRUE]
            ELSE /\ docs' = docs
                 /\ last' = [op |-> "mark", repo_url |-> repo_url,
                             service_name |-> service_name, ret |-> FALSE]
    /\ UNCHANGED <<now, servicesDirExists, listing, registry, artifacts,
                   repoPaths, inflight, seenReady>>

\* mark_enrichment_complete(repo_url, service_name)
mark_enrichment_complete(repo_url, service_name) ==
    /\ \A c \in Callers : ~inflight[c].active
    /\ \E service_file \in _find_service_file(service_name) :
         LET repositories == IF service_file = NoFile THEN RaiseValue
                             ELSE LoadRepositories(service_file)
             found == /\ service_file # NoFile
                      /\ repositories.shape # Raise
                      /\ InRepositories(repo_url, repositories) = "yes"
             \* repositories[repo_url]['enriched'] = True needs a dict of dicts
             writable == /\ found
                         /\ repositories.shape = "object"
                         /\ IsObject(repositories.map[repo_url])
         IN IF writable
            THEN /\ docs' = [docs EXCEPT
                       ![service_file].repositories.map[repo_url] =
                           [enriched |-> TRUE, enrichment_completed_at |-> TRUE]
                           @@ @]
                 /\ last' = [op |-> "mark", repo_url |-> repo_url,
                             service_name |-> service_name, ret |-> TRUE]
            ELSE /\ docs' = docs
                 /\ last' = [op |-> "mark", repo_url |-> repo_url,
                             service_name |-> service_name, ret |-> FALSE]
    /\ UNCHANGED <<now, servicesDirExists, listing, registry, artifacts,
                   repoPaths, inflight, seenReady>>

\* get_repository_state answering READY_FOR_CHAT from memory once it has
\* answered it for the pair
GetRepositoryStateCached(repo_url, service_name, keep) ==
    /\ \E service_file \in _find_service_file(service_name) :
         LET state == IF <<repo_url, service_name>> \in seenReady
                      THEN READY_FOR_CHAT
                      ELSE StateVia(repo_url, service_file) IN
         /\ last' = IF keep
                    THEN [op |-> "state", repo_url |-> repo_url,
                          service_name |-> service_name,
                          service_file |-> service_file, ret |-> state]
                    ELSE last
         /\ seenReady' = IF state = READY_FOR_CHAT
                         THEN seenReady \cup {<<repo_url, service_name>>}
                         ELSE seenReady
    /\ UNCHANGED <<now, servicesDirExists, listing, docs, registry, artifacts,
                   repoPaths, inflight>>

\* a call of get_repository_state(repo_url, service_name) and its result;
\* keep: the caller keeps the result as the last completed call
GetRepositoryState(repo_url, service_name, keep) ==
    /\ \E service_file \in _find_service_file(service_name) :
         LET state == StateVia(repo_url, service_file) IN
         /\ last' = IF keep
                    THEN [op |-> "state", repo_url |-> repo_url,
                          service_name |-> service_name,
                          service_file |-> service_file, ret |-> state]
                    ELSE last
         /\ seenReady' = IF state = READY_FOR_CHAT
                         THEN seenReady \cup {<<repo_url, service_name>>}
                         ELSE seenReady
    /\ UNCHANGED <<now, servicesDirExists, listing, docs, registry, artifacts,
                   repoPaths, inflight>>

\* a call of one of the two decision helpers and its result; helper is
\* "skip" for should_skip_enrichment_for_chat, "run" for
\* should_run_full_enrichment_for_new_repo
DecisionHelper(helper, repo_url, service_name) ==
    /\ \E result \in IF helper = "skip"
                     THEN should_skip_enrichment_for_chat(repo_url,
                                                          service_name)
                     ELSE should_run_full_enrichment_for_new_repo(
                              repo_url, service_name) :
         last' = [op |-> helper, repo_url |-> repo_url,
                  service_name |-> service_name, ret |-> result]
    /\ seenReady' =
           IF READY_FOR_CHAT \in get_repository_state(repo_url, service_name)
           THEN seenReady \cup {<<repo_url, service_name>>}
           ELSE seenReady
    /\ UNCHANGED <<now, servicesDirExists, listing, docs, registry, artifacts,
                   repoPaths, inflight>>

\* the enrichment pipeline (outside this module) writes the search artifact
ArtifactSizes == {0, MinArtifactSize}
BuildArtifact(repo_url, size) ==
    /\ artifacts' = (FaissPath[repo_url] :> size) @@ artifacts
    /\ artifacts' # artifacts
    /\ UNCHANGED <<now, servicesDirExists, listing, docs, registry, repoPaths,
                   inflight, last, seenReady>>

\* the same write, kept as the last completed operation
WriteArtifact(repo_url, size) ==
    /\ artifacts' = (FaissPath[repo_url] :> size) @@ artifacts
    /\ last' = [op |-> "artifact", repo_url |-> repo_url, size |-> size]
    /\ UNCHANGED <<now, servicesDirExists, listing, docs, registry, repoPaths,
                   inflight, seenReady>>

\* ------------------------------------------------------------------------
\* Specification: the operations called one at a time on a store that only
\* they write
\* ------------------------------------------------------------------------
AllRepoPaths == {RepoPath[u] : u \in Urls}

Init ==
    /\ now = 1
    /\ servicesDirExists = TRUE
    /\ docs = <<>>
    /\ listing = <<>>
    /\ registry = [present |-> FALSE]
    /\ artifacts = <<>>
    /\ repoPaths \in SUBSET AllRepoPaths
    /\ inflight = [c \in Callers |-> Idle]
    /\ last = [op |-> "none"]
    /\ seenReady = {}

\* whether assign_repo_to_service(service_id, repo_url) reaches the analysis
ReachesAnalysis(service_id, repo_url) ==
    /\ service_id # EmptyId
    /\ repo_url # EmptyUrl
    /\ service_id \in DOMAIN docs
    /\ InRepositories(repo_url, RepositoriesOf(docs[service_id])) # "yes"

\* ------------------------------------------------------------------------
\* The progressive analysis, one step per await
\* ------------------------------------------------------------------------
\* The accumulated context is a sequence of segments; a segment is the text
\* one batch appended (header and answer), or what a cut left of it, known
\* by the batch it comes from and by its length.
RECURSIVE ContextLen(_)
ContextLen(context) ==
    IF context = <<>> THEN 0
    ELSE context[Len(context)].len
             + ContextLen(SubSeq(context, 1, Len(context) - 1))

\* accumulated_context[-n:]
RECURSIVE LastChars(_, _)
LastChars(context, n) ==
    IF n = 0 \/ context = <<>> THEN <<>>
    ELSE LET segment == context[Len(context)] IN
         IF segment.len >= n THEN <<[segment EXCEPT !.len = n]>>
         ELSE LastChars(SubSeq(context, 1, Len(context) - 1), n - segment.len)
                  \o <<segment>>

\* the limit applied without a cut when the context is over the cap
TrimNever(context) == context

\* "if len(accumulated_context) > 10000: accumulated_context[-8000:]"
Trim(context) ==
    IF ContextLen(context) > ContextCap THEN LastChars(context, ContextKeep)
    ELSE context

\* accumulated_context += "\n\n--- {category} Analysis ---\n{batch_result}"
Accumulate(context, i, batch, answer) ==
    Append(context, [batch |-> i,
                     len |-> ContextHeader + Len(batch.category) + answer.len])

\* A plan of four readable batches and one that cannot be read.
PlanLong ==
    [priority_batches |-> <<Batch(CatApi, TRUE), Batch(CatCore, TRUE),
                            Batch(CatDocs, FALSE), Batch(CatDocs, TRUE),
                            Batch(CatCore, TRUE)>>,
     repository_type |-> "GO", analysis_strategy |-> "core-first"]

\* what PrioritizeRepositoryFiles can do
PlanOutcomes ==
    {[kind |-> "plan", plan |-> p] : p \in {PlanLong, PlanEmpty}}
    \cup {[kind |-> "raise", msg |-> "timeout"]}

\* what AnalyzeRepositoryBatch can do: answer a text, answer an object that
\* is not a text (its str() has a length, it has no lower()), or raise
TextLong == Text(12000, {"websocket"})
TextShort == Text(3000, {"http"})
BatchOutcomes ==
    {TextShort, TextLong, [kind |-> "object", len |-> 40],
     BatchRaise("timeout")}

\* the caller whose progressive run is followed step by step
Runner == 1

\* the loop taking every batch, readable or not
NextAny(plan, i) == i

\* the first batch from i on that has readable content; the loop skips the
\* others with "continue"
RECURSIVE NextReadable(_, _)
NextReadable(plan, i) ==
    IF i > Len(plan.priority_batches) THEN i
    ELSE IF plan.priority_batches[i].readable THEN i
    ELSE NextReadable(plan, i + 1)

\* the except clause returning False without putting a failure entry
ProgressiveFailsSilently(run, msg, stage, save_ok) ==
    /\ docs' = docs
    /\ registry' \in _update_registry(docs')
    /\ inflight' = [inflight EXCEPT ![Runner] = Idle]
    /\ last' = [op |-> "progressive", service_id |-> run.service_id,
                repo_url |-> run.repo_url, ret |-> FALSE,
                raised |-> FALSE, stage |-> stage, msg |-> msg,
                saved |-> save_ok, calls |-> run.calls,
                plan |-> run.plan, assign_ret |-> TRUE]

\* the except clause of the orchestrator: the failure entry is put in
\* service_data and the file written, unless the write fails; False is
\* returned.  Then assign_repo_to_service rebuilds the registry and returns.
ProgressiveFails(run, msg, stage, save_ok) ==
    LET failed == PutEntry(run.service_data, RepoKey[run.repo_url],
                           ProgressiveFallbackEntry(run.repo_url, msg))
    IN /\ docs' = IF save_ok THEN [docs EXCEPT ![run.service_id] = failed]
                  ELSE docs
       /\ registry' \in _update_registry(docs')
       /\ inflight' = [inflight EXCEPT ![Runner] = Idle]
       /\ last' = [op |-> "progressive", service_id |-> run.service_id,
                   repo_url |-> run.repo_url, ret |-> FALSE,
                   raised |-> FALSE, stage |-> stage, msg |-> msg,
                   saved |-> save_ok, calls |-> run.calls,
                   plan |-> run.plan, assign_ret |-> TRUE]

\* phases 3 and 4 once the loop has ended: the synthesis, which raises when
\* an answer is not a text (analysis.lower()), the entry, the write
ProgressiveStores(run, save_ok, fallback_save_ok) ==
    IF \E k \in DOMAIN run.batch_results :
           run.batch_results[k].analysis.kind # "text"
    THEN ProgressiveFails(run, "AttributeError", "synthesis", fallback_save_ok)
    ELSE IF ~save_ok
    THEN ProgressiveFails(run, "OSError", "save", fallback_save_ok)
    ELSE /\ docs' = [docs EXCEPT ![run.service_id] =
                        PutEntry(run.service_data, RepoKey[run.repo_url],
                                 ProgressiveEntry(run.repo_url, run.plan,
                                                  run.batch_results))]
         /\ registry' \in _update_registry(docs')
         /\ inflight' = [inflight EXCEPT ![Runner] = Idle]
         /\ last' = [op |-> "progressive", service_id |-> run.service_id,
                     repo_url |-> run.repo_url, ret |-> TRUE,
                     raised |-> FALSE, stage |-> "none", msg |-> "",
                     saved |-> TRUE, calls |-> run.calls,
                     plan |-> run.plan, assign_ret |-> TRUE]

\* the loop from batch i on, up to its next await: the call for the next
\* readable batch is issued with the accumulated context, or the loop has
\* ended and the run finishes
ProgressiveAdvance(run, i, save_ok, fallback_save_ok) ==
    LET k == NextReadable(run.plan, i) IN
    IF k > Len(run.plan.priority_batches)
    THEN ProgressiveStores(run, save_ok, fallback_save_ok)
    ELSE /\ inflight' = [inflight EXCEPT ![Runner] =
                [run EXCEPT !.awaiting = "batch", !.i = k,
                            !.calls = Append(@,
                                [batch |-> k,
                                 context |-> run.accumulated_context,
                                 returned |-> FALSE])]]
         /\ UNCHANGED <<docs, registry, last>>

\* the run starting with a context that is not empty
ProgressiveBeginSeeded(service_id, repo_url) ==
    /\ \A c \in Callers : ~inflight[c].active
    /\ ReachesAnalysis(service_id, repo_url)
    /\ PathExists(repo_url)
    /\ TotalEntries(docs) < MaxRepos
           \/ RepoKey[repo_url] \in DOMAIN RepositoriesOf(docs[service_id]).map
    /\ inflight' = [inflight EXCEPT ![Runner] =
           [active |-> TRUE, service_id |-> service_id, repo_url |-> repo_url,
            service_data |-> docs[service_id], awaiting |-> "plan",
            plan |-> PlanEmpty, i |-> 0, batch_results |-> <<>>,
            accumulated_context |-> <<[batch |-> 0, len |-> 100]>>,
            calls |-> <<>>]]
    /\ UNCHANGED <<now, servicesDirExists, listing, docs, registry, artifacts,
                   repoPaths, last, seenReady>>

\* assign_repo_to_service up to the await of PrioritizeRepositoryFiles, the
\* strategy detection having answered "progressive"
ProgressiveBegin(service_id, repo_url) ==
    /\ \A c \in Callers : ~inflight[c].active
    /\ ReachesAnalysis(service_id, repo_url)
    /\ PathExists(repo_url)
    /\ TotalEntries(docs) < MaxRepos
           \/ RepoKey[repo_url] \in DOMAIN RepositoriesOf(docs[service_id]).map
    /\ inflight' = [inflight EXCEPT ![Runner] =
           [active |-> TRUE, service_id |-> service_id, repo_url |-> repo_url,
            service_data |-> docs[service_id], awaiting |-> "plan",
            plan |-> PlanEmpty, i |-> 0, batch_results |-> <<>>,
            accumulated_context |-> <<>>, calls |-> <<>>]]
    /\ UNCHANGED <<now, servicesDirExists, listing, docs, registry, artifacts,
                   repoPaths, last, seenReady>>

\* PrioritizeRepositoryFiles answers or raises
PlanReturns(outcome, save_ok, fallback_save_ok) ==
    /\ inflight[Runner].active
    /\ inflight[Runner].awaiting = "plan"
    /\ IF outcome.kind = "raise"
       THEN ProgressiveFails(inflight[Runner], outcome.msg, "plan",
                             fallback_save_ok)
       ELSE ProgressiveAdvance([inflight[Runner] EXCEPT !.plan = outcome.plan],
                               1, save_ok, fallback_save_ok)
    /\ UNCHANGED <<now, servicesDirExists, listing, artifacts, repoPaths,
                   seenReady>>

\* AnalyzeRepositoryBatch answers or raises for the batch awaited
BatchReturns(answer, save_ok, fallback_save_ok) ==
    /\ inflight[Runner].active
    /\ inflight[Runner].awaiting = "batch"
    /\ LET run == inflight[Runner]
           i == run.i
           batch == run.plan.priority_batches[i]
           returned == [run EXCEPT !.calls[Len(run.calls)].returned = TRUE]
       IN IF answer.kind = "raise"
          THEN ProgressiveFails(returned, answer.msg, "batch", fallback_save_ok)
          ELSE ProgressiveAdvance(
                   [returned EXCEPT
                       !.batch_results =
                           Append(@, [batch_category |-> batch.category,
                                      analysis |-> answer]),
                       !.accumulated_context =
                           Trim(Accumulate(@, i, batch, answer))],
                   i + 1, save_ok, fallback_save_ok)
    /\ UNCHANGED <<now, servicesDirExists, listing, artifacts, repoPaths,
                   seenReady>>

AnyAnswer == "standard"
AnyOutcome == [kind |-> "none"]
AnyRun == [kind |-> "plan_raise", msg |-> ""]

\* a call that returns before any external call
AssignWithoutAnalysis ==
    \E service_id \in DOMAIN docs, repo_url \in Urls :
        /\ ~ReachesAnalysis(service_id, repo_url)
        /\ assign_repo_to_service(service_id, repo_url, AnyAnswer, AnyOutcome,
                                  AnyRun)

\* the service ids the callers pass: the empty one, and the slug of a name
\* with a clock second, 0 being a second at which no service was created
IdInputs ==
    {EmptyId} \cup {[base |-> name, ts |-> t] : name \in Names, t \in 0..MaxTime}

\* whether assign_repo_to_service(service_id, repo_url) returns at its
\* validation or at its test of the service file
RejectedInput(service_id, repo_url) ==
    \/ service_id = EmptyId
    \/ repo_url = EmptyUrl
    \/ service_id \notin DOMAIN docs

\* a call with an empty argument or with the id of no service file, while
\* the external capabilities stand ready to answer
AssignRejected ==
    \E service_id \in IdInputs, repo_url \in UrlInputs :
        /\ RejectedInput(service_id, repo_url)
        /\ \E answer \in StrategyAnswers \ {"progressive"},
              outcome \in StandardOutcomes :
               assign_repo_to_service(service_id, repo_url, answer, outcome,
                                      AnyRun)

\* a call whose strategy selection ends in the standard analysis
AssignStandard ==
    \E service_id \in DOMAIN docs, repo_url \in Urls :
        /\ ReachesAnalysis(service_id, repo_url)
        /\ \E answer \in StrategyAnswers \ {"progressive"},
              outcome \in StandardOutcomes :
               assign_repo_to_service(service_id, repo_url, answer, outcome,
                                      AnyRun)

\* a call whose strategy selection ends in the progressive analysis
AssignProgressive ==
    \E service_id \in DOMAIN docs, repo_url \in Urls :
        /\ ReachesAnalysis(service_id, repo_url)
        /\ PathExists(repo_url)
        /\ \E run \in ProgressiveRuns :
               assign_repo_to_service(service_id, repo_url, "progressive",
                                      AnyOutcome, run)

Next ==
    \/ Tick
    \/ \E name \in Names : create_service(name)
    \/ AssignWithoutAnalysis
    \/ AssignStandard
    \/ AssignProgressive
    \/ \E repo_url \in Urls, service_name \in Names :
           mark_enrichment_complete(repo_url, service_name)
    \/ \E repo_url \in Urls, service_name \in Names :
           GetRepositoryState(repo_url, service_name, FALSE)
    \/ \E repo_url \in Urls, size \in ArtifactSizes :
           BuildArtifact(repo_url, size)

Spec == Init /\ [][Next]_vars

\* ------------------------------------------------------------------------
\* Specification of the ServiceManager alone, within one clock second:
\* services are created and repositories assigned, one call at a time
\* ------------------------------------------------------------------------
NextAssign ==
    \/ \E name \in Names : create_service(name)
    \/ AssignWithoutAnalysis
    \/ AssignStandard
    \/ AssignProgressive

SpecAssign == Init /\ [][NextAssign]_vars

\* ------------------------------------------------------------------------
\* Specification of the state manager alone: get_repository_state called on
\* every store condition of a bounded family (files written by anyone)
\* ------------------------------------------------------------------------
\* repository entries as they can be found on disk
StoreEntries ==
    {[shape |-> "string"], [shape |-> "null"], [shape |-> "object"]}
    \cup {[shape |-> "object", enriched |-> e] : e \in BOOLEAN}
    \cup {[shape |-> "object", analysis_timestamp |-> t] : t \in BOOLEAN}
    \cup {[shape |-> "object", enriched |-> e, analysis_timestamp |-> t] :
              e \in BOOLEAN, t \in BOOLEAN}

\* contents of a service file as they can be found on disk
StoreFiles ==
    {[shape |-> "malformed"], [shape |-> "list"], [shape |-> "object"],
     [shape |-> "object", repositories |-> [shape |-> "null"]],
     [shape |-> "object", repositories |-> [shape |-> "list", items |-> {}]],
     [shape |-> "object",
      repositories |-> [shape |-> "list", items |-> {UrlWeb}]],
     [shape |-> "object", repositories |-> EmptyMap]}
    \cup {[shape |-> "object",
           repositories |-> [shape |-> "object", map |-> (UrlWeb :> e)]] :
              e \in StoreEntries}
    \cup {[shape |-> "object", name |-> NameSales,
           repositories |->
               [shape |-> "object",
                map |-> (UrlWeb :> [shape |-> "object", role |-> "UNKNOWN",
                                    enriched |-> FALSE,
                                    analysis_timestamp |-> TRUE])
                        @@ (UrlWebGit :> [shape |-> "object"])]]}

StoreIds == {_generate_service_id(NameSales, t) : t \in 1..MaxTime}
StoreSizes == {0, MinArtifactSize - 1, MinArtifactSize}

InitStore ==
    /\ now = 1
    /\ servicesDirExists \in BOOLEAN
    /\ \E ids \in SUBSET StoreIds :
           /\ ~servicesDirExists => ids = {}
           /\ docs \in [ids -> StoreFiles]
           /\ listing \in Listings(ids)
    /\ registry = [present |-> FALSE]
    /\ artifacts \in {<<>>} \cup {(FaissPath[UrlWeb] :> size) : size \in StoreSizes}
    /\ repoPaths = {}
    /\ inflight = [c \in Callers |-> Idle]
    /\ last = [op |-> "none"]
    /\ seenReady = {}

NextStore ==
    \E repo_url \in Urls, service_name \in Names :
        GetRepositoryState(repo_url, service_name, TRUE)

SpecStore == InitStore /\ [][NextStore]_vars

\* ------------------------------------------------------------------------
\* Specification of overlapping callers: assign_repo_to_service calls that
\* are suspended on their external calls while other calls run
\* ------------------------------------------------------------------------
NextOverlap ==
    \/ \E name \in Names : create_service(name)
    \/ \E c \in Callers, service_id \in DOMAIN docs, repo_url \in Urls :
           AssignBegin(c, service_id, repo_url)
    \/ \E c \in Callers, answer \in StrategyAnswers,
          outcome \in StandardOutcomes, run \in ProgressiveRuns :
           AssignFinish(c, answer, outcome, run)
    \/ \E repo_url \in Urls, service_name \in Names :
           GetRepositoryState(repo_url, service_name, FALSE)

SpecOverlap == Init /\ [][NextOverlap]_vars

\* ------------------------------------------------------------------------
\* Specification of mark_enrichment_complete called on every store of the
\* bounded family
\* ------------------------------------------------------------------------
\* Specification of queries between writes, within one clock second: every
\* operation is kept as the last completed one
NextFresh ==
    \/ \E name \in Names : create_service(name)
    \/ AssignWithoutAnalysis
    \/ AssignStandard
    \/ AssignProgressive
    \/ \E repo_url \in Urls, service_name \in Names :
           mark_enrichment_complete(repo_url, service_name)
    \/ \E repo_url \in Urls, size \in ArtifactSizes :
           WriteArtifact(repo_url, size)
    \/ \E repo_url \in Urls, service_name \in Names :
           GetRepositoryState(repo_url, service_name, TRUE)
    \/ \E helper \in {"skip", "run"}, repo_url \in Urls, service_name \in Names :
           DecisionHelper(helper, repo_url, service_name)

SpecFresh == Init /\ [][NextFresh]_vars

\* Specification of the ServiceManager called with any arguments, within
\* one clock second
NextValidate ==
    \/ \E name \in Names : create_service(name)
    \/ AssignRejected
    \/ AssignWithoutAnalysis
    \/ AssignStandard
    \/ AssignProgressive

SpecValidate == Init /\ [][NextValidate]_vars

\* the names the callers of create_service pass: names with the same slug,
\* a whitespace-only name and the empty name
NameBlank == <<" ">>
NameSalesPadded == <<"sales", " ">>
NameInputs == {NameSales, NameSalesPadded, NameBlank, EmptyName}

\* Specification of create_service called with any name as the clock
\* advances, on services that are assigned repositories
NextCreate ==
    \/ Tick
    \/ \E name \in NameInputs : create_service(name)
    \/ AssignStandard

SpecCreate == Init /\ [][NextCreate]_vars

\* Specification of list_services: the index is first absent or left by
\* anyone (not JSON, a list, an object without services), then rebuilt by
\* create_service and assign_repo_to_service
RegistryFiles ==
    {[present |-> FALSE],
     [present |-> TRUE, shape |-> "malformed"],
     [present |-> TRUE, shape |-> "list"],
     [present |-> TRUE, shape |-> "object"]}

InitList ==
    /\ now = 1
    /\ servicesDirExists = TRUE
    /\ docs = <<>>
    /\ listing = <<>>
    /\ registry \in RegistryFiles
    /\ artifacts = <<>>
    /\ repoPaths = AllRepoPaths
    /\ inflight = [c \in Callers |-> Idle]
    /\ last = [op |-> "none"]
    /\ seenReady = {}

NextList ==
    \/ Tick
    \/ \E name \in Names : create_service(name)
    \/ AssignStandard
    \/ ListServices

SpecList == InitList /\ [][NextList]_vars

\* a call of find_service_by_repo_url and its result
FindService(repo_url) ==
    /\ last' = [op |-> "find", repo_url |-> repo_url,
                ret |-> find_service_by_repo_url(repo_url)]
    /\ UNCHANGED <<now, servicesDirExists, listing, docs, registry, artifacts,
                   repoPaths, inflight, seenReady>>

\* Specification of find_service_by_repo_url: services are created and
\* assigned repositories under either strategy, every clone being present,
\* and looked up by URL
InitFind ==
    /\ now = 1
    /\ servicesDirExists = TRUE
    /\ docs = <<>>
    /\ listing = <<>>
    /\ registry = [present |-> FALSE]
    /\ artifacts = <<>>
    /\ repoPaths = {RepoPath[u] : u \in FindUrls}
    /\ inflight = [c \in Callers |-> Idle]
    /\ last = [op |-> "none"]
    /\ seenReady = {}

\* an assignment of one of the URLs through the standard analysis
AssignFoundStandard ==
    \E service_id \in DOMAIN docs, repo_url \in FindUrls :
        /\ ReachesAnalysis(service_id, repo_url)
        /\ \E outcome \in StandardOutcomes :
               assign_repo_to_service(service_id, repo_url, "standard",
                                      outcome, AnyRun)

\* an assignment of one of the URLs through the progressive analysis
AssignFoundProgressive ==
    \E service_id \in DOMAIN docs, repo_url \in FindUrls :
        /\ ReachesAnalysis(service_id, repo_url)
        /\ \E run \in ProgressiveRuns :
               assign_repo_to_service(service_id, repo_url, "progressive",
                                      AnyOutcome, run)

NextFind ==
    \/ \E name \in Names : create_service(name)
    \/ AssignFoundStandard
    \/ AssignFoundProgressive
    \/ \E repo_url \in FindUrls : FindService(repo_url)
    \/ \E repo_url \in FindUrls : FindService(repo_url \o <<"/">>)

SpecFind == InitFind /\ [][NextFind]_vars

\* Specification of the registry rebuild: services are created and assigned
\* repositories in a directory that may hold one file written by anyone
ForeignId == [base |-> <<"old">>, ts |-> 0]

\* the file written by anyone: not JSON, a JSON list, an object without the
\* members of a service document, a service document whose created_at is null
ForeignFiles ==
    {[shape |-> "malformed"], [shape |-> "list"], [shape |-> "object"],
     [shape |-> "object", id |-> ForeignId, name |-> <<"old">>,
      created_at |-> NullTime, last_updated |-> 1,
      repositories |-> EmptyMap, repository_count |-> 0]}

InitRebuild ==
    /\ now = 1
    /\ servicesDirExists = TRUE
    /\ \/ docs = <<>> /\ listing = <<>>
       \/ \E f \in ForeignFiles :
              docs = (ForeignId :> f) /\ listing = <<ForeignId>>
    /\ registry = [present |-> FALSE]
    /\ artifacts = <<>>
    /\ repoPaths = AllRepoPaths
    /\ inflight = [c \in Callers |-> Idle]
    /\ last = [op |-> "none"]
    /\ seenReady = {}

\* an assignment to a service that create_service created, through the
\* standard analysis
AssignOwnStandard ==
    \E service_id \in DOMAIN docs \ {ForeignId}, repo_url \in Urls :
        /\ ReachesAnalysis(service_id, repo_url)
        /\ \E outcome \in StandardOutcomes :
               assign_repo_to_service(service_id, repo_url, "standard",
                                      outcome, AnyRun)

\* the same through the progressive analysis
AssignOwnProgressive ==
    \E service_id \in DOMAIN docs \ {ForeignId}, repo_url \in Urls :
        /\ ReachesAnalysis(service_id, repo_url)
        /\ \E run \in ProgressiveRuns :
               assign_repo_to_service(service_id, repo_url, "progressive",
                                      AnyOutcome, run)

NextRebuild ==
    \/ Tick
    \/ \E name \in Names : create_service(name)
    \/ AssignOwnStandard
    \/ AssignOwnProgressive

SpecRebuild == InitRebuild /\ [][NextRebuild]_vars

\* Specification of repeated rebuilds: the directory holds at first one
\* service document written at any second, services are created as the
\* clock advances, and the index is rebuilt under any scan order
InitScan ==
    /\ now = 1
    /\ servicesDirExists = TRUE
    /\ \E t \in 1..MaxTime :
           docs = (ForeignId :> [shape |-> "object", id |-> ForeignId,
                                 name |-> <<"old">>, created_at |-> t,
                                 last_updated |-> t,
                                 repositories |-> EmptyMap,
                                 repository_count |-> 0])
    /\ listing = <<ForeignId>>
    /\ registry = [present |-> FALSE]
    /\ artifacts = <<>>
    /\ repoPaths = AllRepoPaths
    /\ inflight = [c \in Callers |-> Idle]
    /\ last = [op |-> "none"]
    /\ seenReady = {}

NextScan ==
    \/ Tick
    \/ \E name \in Names : create_service(name)
    \/ AssignOwnStandard
    \/ \E scan \in Listings(DOMAIN docs) : RebuildRegistry(scan)

SpecScan == InitScan /\ [][NextScan]_vars

\* Specification of the progressive analysis step by step: a service is
\* created and one caller assigns repositories through progressive runs
NextProgressive ==
    \/ \E name \in Names : create_service(name)
    \/ \E service_id \in DOMAIN docs, repo_url \in Urls :
           ProgressiveBegin(service_id, repo_url)
    \/ \E outcome \in PlanOutcomes, save_ok, fallback_save_ok \in BOOLEAN :
           PlanReturns(outcome, save_ok, fallback_save_ok)
    \/ \E answer \in BatchOutcomes, save_ok, fallback_save_ok \in BOOLEAN :
           BatchReturns(answer, save_ok, fallback_save_ok)

SpecProgressive == Init /\ [][NextProgressive]_vars

\* Specification of the protocol extraction: _extract_protocols_from_batches
\* applied to every sequence of at most MaxBatches batch results whose text
\* is one of the probe texts, written in upper or lower case
MaxBatches == 2
ProbeTexts ==
    {{}, {"HTTP"}, {"rest"}, {"Api", "docker"}, {"WebSocket"}, {"gRPC"},
     {"WEBSOCKET", "REST", "GRPC"}}
LowerCase ==
    [tok \in UNION ProbeTexts |->
        CASE tok = "HTTP" -> "http"
          [] tok \in {"rest", "REST"} -> "rest"
          [] tok = "Api" -> "api"
          [] tok \in {"WebSocket", "WEBSOCKET"} -> "websocket"
          [] tok \in {"gRPC", "GRPC"} -> "grpc"
          [] OTHER -> tok]
ProbeResults ==
    {[batch_category |-> category,
      analysis |-> Text(Cardinality(text), {LowerCase[tok] : tok \in text}),
      text |-> text] :
        category \in {CatApi, CatCore}, text \in ProbeTexts}

ExtractProtocols(batch_results) ==
    /\ last' = [op |-> "extract", batch_results |-> batch_results,
                ret |-> _extract_protocols_from_batches(batch_results)]
    /\ UNCHANGED <<now, servicesDirExists, listing, docs, registry, artifacts,
                   repoPaths, inflight, seenReady>>

NextProtocols ==
    \E n \in 0..MaxBatches :
        \E batch_results \in [1..n -> ProbeResults] :
            ExtractProtocols(batch_results)

SpecProtocols == Init /\ [][NextProtocols]_vars

\* the two decision helpers called on every store of the bounded family
\* ------------------------------------------------------------------------
\* Specification of a ServiceManager constructed without the external
\* capability (BAML_AVAILABLE false, self.baml_client is None): every
\* self.baml_client.<Function>(...) raises AttributeError at the attribute
\* lookup, in the strategy selection and in the analysis alike
\* ------------------------------------------------------------------------
MsgNoClient == "'NoneType' object has no attribute"
NoClient == [kind |-> "raise", msg |-> MsgNoClient]

AssignAbsent ==
    \E service_id \in IdInputs, repo_url \in UrlInputs :
        assign_repo_to_service(service_id, repo_url, Raise, NoClient, AnyRun)

NextAbsent ==
    \/ Tick
    \/ \E name \in Names : create_service(name)
    \/ AssignAbsent

SpecAbsent == Init /\ [][NextAbsent]_vars

\* ------------------------------------------------------------------------
\* Specification of one caller whose assignment can be cancelled at an await
\* ------------------------------------------------------------------------
\* the cancellation handled as an error of the call: the except clause
\* stores the fallback entry and writes the file
CancelCaught(c) ==
    /\ inflight[c].active
    /\ docs' = [docs EXCEPT ![inflight[c].service_id] =
                   StoreStandard(inflight[c].service_data, inflight[c].repo_url,
                                 StandardFallbackEntry(inflight[c].repo_url,
                                                       "cancelled"), now)]
    /\ inflight' = [inflight EXCEPT ![c] = Idle]
    /\ last' = [op |-> "cancelled", service_id |-> inflight[c].service_id,
                repo_url |-> inflight[c].repo_url,
                service_data |-> inflight[c].service_data,
                awaiting |-> inflight[c].awaiting]
    /\ UNCHANGED <<now, servicesDirExists, listing, registry, artifacts,
                   repoPaths, seenReady>>

\* The task of caller c is cancelled while it awaits an external call:
\* CancelledError is raised at the await; it is not an Exception, so no
\* except clause of the analysis or of assign_repo_to_service runs, nothing
\* is written and the registry is not rebuilt.
Cancel(c) ==
    /\ inflight[c].active
    /\ inflight' = [inflight EXCEPT ![c] = Idle]
    /\ last' = [op |-> "cancelled", service_id |-> inflight[c].service_id,
                repo_url |-> inflight[c].repo_url,
                service_data |-> inflight[c].service_data,
                awaiting |-> inflight[c].awaiting]
    /\ UNCHANGED <<now, servicesDirExists, listing, docs, registry, artifacts,
                   repoPaths, seenReady>>

\* the standard analysis of the caller answers or raises
StandardReturns ==
    /\ inflight[Runner].active
    /\ inflight[Runner].awaiting = "standard"
    /\ \E answer \in StrategyAnswers \ {"progressive"},
          outcome \in StandardOutcomes :
           AssignFinish(Runner, answer, outcome, AnyRun)

NextCancel ==
    \/ \E name \in Names : create_service(name)
    \/ \E service_id \in DOMAIN docs, repo_url \in Urls :
           /\ PathExists(repo_url)
           /\ AssignBegin(Runner, service_id, repo_url)
    \/ StandardReturns
    \/ \E service_id \in DOMAIN docs, repo_url \in Urls :
           ProgressiveBegin(service_id, repo_url)
    \/ \E outcome \in PlanOutcomes, save_ok, fallback_save_ok \in BOOLEAN :
           PlanReturns(outcome, save_ok, fallback_save_ok)
    \/ \E answer \in BatchOutcomes, save_ok, fallback_save_ok \in BOOLEAN :
           BatchReturns(answer, save_ok, fallback_save_ok)
    \/ Cancel(Runner)

SpecCancel == Init /\ [][NextCancel]_vars

\* ------------------------------------------------------------------------
\* Specification of a reader that overlaps the write of a service file.
\* open(service_file, 'w') truncates the file; json.dump then writes the
\* text, which reaches the file when the buffer is flushed, at the latest at
\* the close.  Between the two a reader finds a file that is not JSON.
\* ------------------------------------------------------------------------
\* mark_enrichment_complete up to open(service_file, 'w'), when it finds the
\* entry: the document to write is held by the caller, the file is empty
MarkOpens(repo_url, service_name) ==
    /\ \A c \in Callers : ~inflight[c].active
    /\ \E service_file \in _find_service_file(service_name) :
         LET repositories == IF service_file = NoFile THEN RaiseValue
                             ELSE LoadRepositories(service_file)
         IN /\ service_file # NoFile
            /\ repositories.shape = "object"
            /\ InRepositories(repo_url, repositories) = "yes"
            /\ IsObject(repositories.map[repo_url])
            /\ inflight' = [inflight EXCEPT ![Runner] =
                   [active |-> TRUE, service_id |-> service_file,
                    repo_url |-> repo_url, service_name |-> service_name,
                    awaiting |-> "write",
                    before |-> [u \in Urls |-> StateVia(u, service_file)],
                    service_data |->
                        [docs[service_file] EXCEPT
                            !.repositories.map[repo_url] =
                                [enriched |-> TRUE,
                                 enrichment_completed_at |-> TRUE] @@ @]]]
            /\ docs' = [docs EXCEPT ![service_file] = [shape |-> "malformed"]]
            /\ last' = [op |-> "open", service_file |-> service_file]
    /\ UNCHANGED <<now, servicesDirExists, listing, registry, artifacts,
                   repoPaths, seenReady>>

\* json.dump and the close of the file: the whole document is in the file;
\* mark_enrichment_complete returns True
MarkCloses ==
    /\ inflight[Runner].active
    /\ inflight[Runner].awaiting = "write"
    /\ docs' = [docs EXCEPT ![inflight[Runner].service_id] =
                   inflight[Runner].service_data]
    /\ inflight' = [inflight EXCEPT ![Runner] = Idle]
    /\ last' = [op |-> "mark", repo_url |-> inflight[Runner].repo_url,
                service_name |-> inflight[Runner].service_name, ret |-> TRUE]
    /\ UNCHANGED <<now, servicesDirExists, listing, registry, artifacts,
                   repoPaths, seenReady>>

NextRace ==
    \/ \E name \in Names : create_service(name)
    \/ AssignStandard
    \/ \E repo_url \in Urls, size \in ArtifactSizes :
           BuildArtifact(repo_url, size)
    \/ \E repo_url \in Urls, service_name \in Names :
           MarkOpens(repo_url, service_name)
    \/ MarkCloses
    \/ \E repo_url \in Urls, service_name \in Names :
           GetRepositoryState(repo_url, service_name, TRUE)

SpecRace == Init /\ [][NextRace]_vars

\* ------------------------------------------------------------------------
\* Specification of assignments of the two repositories of KeyUrls, both
\* cloned, through either strategy
\* ------------------------------------------------------------------------
InitKeys ==
    /\ now = 1
    /\ servicesDirExists = TRUE
    /\ docs = <<>>
    /\ listing = <<>>
    /\ registry = [present |-> FALSE]
    /\ artifacts = <<>>
    /\ repoPaths = {RepoPath[u] : u \in KeyUrls}
    /\ inflight = [c \in Callers |-> Idle]
    /\ last = [op |-> "none"]
    /\ seenReady = {}

NextKeys ==
    \/ Tick
    \/ \E name \in Names : create_service(name)
    \/ \E service_id \in DOMAIN docs, repo_url \in KeyUrls :
           \E answer \in StrategyAnswers \ {"progressive"},
              outcome \in StandardOutcomes :
               assign_repo_to_service(service_id, repo_url, answer, outcome,
                                      AnyRun)
    \/ \E service_id \in DOMAIN docs, repo_url \in KeyUrls :
           \E run \in ProgressiveRuns :
               assign_repo_to_service(service_id, repo_url, "progressive",
                                      AnyOutcome, run)

SpecKeys == InitKeys /\ [][NextKeys]_vars

\* ------------------------------------------------------------------------
\* Specification of two callers assigning the repositories of KeyUrls
\* through the standard analysis, their calls split at the awaits
\* ------------------------------------------------------------------------
NextLost ==
    \/ \E name \in Names : create_service(name)
    \/ \E c \in Callers, service_id \in DOMAIN docs, repo_url \in KeyUrls :
           AssignBegin(c, service_id, repo_url)
    \/ \E c \in Callers, answer \in StrategyAnswers \ {"progressive"},
          outcome \in StandardOutcomes :
           AssignFinish(c, answer, outcome, AnyRun)

SpecLost == InitKeys /\ [][NextLost]_vars

\* ------------------------------------------------------------------------
\* Specification of the HTTP handler POST /api/services/{service_id}/repos
\* ------------------------------------------------------------------------
\* the parameters of ServiceManager.assign_repo_to_service besides self, and
\* the keywords the handler passes in its call
AssignParameters == {"service_id", "repo_url"}
EndpointKeywords == {"service_id", "repo_url", "repo_role"}
Roles == {"UNKNOWN", "BACKEND_SERVICE"}

\* The handler: it constructs a ServiceManager and calls
\* assign_repo_to_service(service_id=, repo_url=, repo_role=).  A keyword
\* that is not a parameter makes the call raise TypeError before the body of
\* the method runs; the handler's "except Exception" answers 500 "Failed to
\* assign repository".
AssignRepoEndpoint(service_id, repo_url, repo_role) ==
    /\ \A c \in Callers : ~inflight[c].active
    /\ ~(EndpointKeywords \subseteq AssignParameters)
    /\ last' = [op |-> "post_repos", service_id |-> service_id,
                repo_url |-> repo_url, repo_role |-> repo_role,
                invoked |-> FALSE, raised |-> "TypeError", status |-> 500,
                detail |-> "Failed to assign repository"]
    /\ UNCHANGED <<now, servicesDirExists, listing, docs, registry, artifacts,
                   repoPaths, inflight, seenReady>>

NextEndpoint ==
    \/ \E name \in Names : create_service(name)
    \/ AssignStandard
    \/ \E service_id \in IdInputs, repo_url \in UrlInputs, repo_role \in Roles :
           AssignRepoEndpoint(service_id, repo_url, repo_role)

SpecEndpoint == Init /\ [][NextEndpoint]_vars

NextHelpers ==
    \E helper \in {"skip", "run"}, repo_url \in Urls, service_name \in Names :
        DecisionHelper(helper, repo_url, service_name)

SpecHelpers == InitStore /\ [][NextHelpers]_vars

NextMark ==
    \E repo_url \in Urls, service_name \in Names :
        mark_enrichment_complete(repo_url, service_name)

SpecMark == InitStore /\ [][NextMark]_vars

\* ------------------------------------------------------------------------
\* Properties of get_repository_state on an arbitrary store (SpecStore)
\* ------------------------------------------------------------------------
\* the service file the last kept get_repository_state call was given by the
\* directory listing, and the parts of it the call reads
QueryFile == last.service_file
QueryFound == last.op = "state" /\ QueryFile # NoFile
QueryDocIsObject == QueryFound /\ docs[QueryFile].shape = "object"
QueryReposIsMap ==
    /\ QueryDocIsObject
    /\ Has(docs[QueryFile], "repositories")
    /\ docs[QueryFile].repositories.shape = "object"
QueryHasEntry ==
    /\ QueryReposIsMap
    /\ last.repo_url \in DOMAIN docs[QueryFile].repositories.map
QueryEntry == docs[QueryFile].repositories.map[last.repo_url]
QueryEntryIsObject == QueryHasEntry /\ QueryEntry.shape = "object"
QueryEnrichedSet ==
    /\ QueryEntryIsObject
    /\ Has(QueryEntry, "enriched")
    /\ QueryEntry.enriched
QueryTimestampSet ==
    /\ QueryEntryIsObject
    /\ Has(QueryEntry, "analysis_timestamp")
    /\ QueryEntry.analysis_timestamp

\* C1: get_repository_state never lets an exception escape and returns one
\* of the four states, whatever the store holds: no services directory, no
\* service file, text that is not JSON, a document, a repositories member or
\* an entry of the wrong shape, no artifact, an artifact of zero bytes.
C1_AlwaysOneOfFourStates ==
    /\ \A repo_url \in Urls, service_name \in Names :
           get_repository_state(repo_url, service_name) \subseteq RepositoryState
    /\ last.op = "state" => last.ret \in RepositoryState

\* a call that read a service file which is not JSON and answered CORRUPTED
C1_Witness ==
    /\ QueryFound
    /\ docs[QueryFile].shape = "malformed"
    /\ last.ret = CORRUPTED

\* C9: assignment check.  No service file matches the name: NEEDS_ASSIGNMENT.
\* A file is found and repo_url is not a key of its repositories mapping
\* (a missing member reads as the empty mapping): NEEDS_ASSIGNMENT.  The
\* file found cannot be parsed: CORRUPTED.
C9_AssignmentCheck ==
    last.op = "state" =>
        /\ (QueryFile = NoFile) =
               (~servicesDirExists
                \/ \A sid \in DOMAIN docs : ~GlobMatch(last.service_name, sid))
        /\ QueryFile = NoFile => last.ret = NEEDS_ASSIGNMENT
        /\ (QueryDocIsObject /\ ~Has(docs[QueryFile], "repositories"))
               => last.ret = NEEDS_ASSIGNMENT
        /\ (QueryReposIsMap /\ ~QueryHasEntry) => last.ret = NEEDS_ASSIGNMENT
        /\ (QueryFound /\ docs[QueryFile].shape = "malformed")
               => last.ret = CORRUPTED

\* a call on a readable document whose mapping holds another repository but
\* not repo_url
C9_Witness ==
    /\ QueryReposIsMap
    /\ ~QueryHasEntry
    /\ docs[QueryFile].repositories.map # <<>>
    /\ last.ret = NEEDS_ASSIGNMENT

\* C10: enrichment check.  It decides only when the assignment check passed;
\* an entry whose enriched is falsy or missing, or whose analysis_timestamp
\* is missing or empty, gives NEEDS_ENRICHMENT whatever the artifact is; the
\* artifact decides only when both are set.
C10_EnrichmentCheck ==
    last.op = "state" =>
        /\ (QueryEntryIsObject /\ ~(QueryEnrichedSet /\ QueryTimestampSet))
               => last.ret = NEEDS_ENRICHMENT
        /\ last.ret = NEEDS_ENRICHMENT => QueryHasEntry
        /\ (QueryEnrichedSet /\ QueryTimestampSet) =>
               LET path == FaissPath[last.repo_url] IN
               last.ret = IF path \notin DOMAIN artifacts THEN NEEDS_ENRICHMENT
                          ELSE IF artifacts[path] < MinArtifactSize
                               THEN CORRUPTED
                               ELSE READY_FOR_CHAT
        /\ last.ret = READY_FOR_CHAT => (QueryEnrichedSet /\ QueryTimestampSet)

\* an entry with enriched set and no timestamp, a valid artifact on disk,
\* and the answer NEEDS_ENRICHMENT
C10_Witness ==
    /\ QueryEnrichedSet
    /\ ~QueryTimestampSet
    /\ FaissPath[last.repo_url] \in DOMAIN artifacts
    /\ artifacts[FaissPath[last.repo_url]] >= MinArtifactSize
    /\ last.ret = NEEDS_ENRICHMENT

\* the artifact of the last query's repository: whether the file exists, and
\* its size
QueryArtifactExists == FaissPath[last.repo_url] \in DOMAIN artifacts
QueryArtifactSize == artifacts[FaissPath[last.repo_url]]

\* C11: integrity check.  With the entry enriched and timestamped: no
\* artifact gives NEEDS_ENRICHMENT, an artifact below 1024 bytes (0
\* included) gives CORRUPTED, one of 1024 bytes or more READY_FOR_CHAT.
\* READY_FOR_CHAT is returned only for an entry that exists, is enriched,
\* has a timestamp and an artifact of at least 1024 bytes.
C11_IntegrityCheck ==
    last.op = "state" =>
        /\ (QueryEnrichedSet /\ QueryTimestampSet /\ ~QueryArtifactExists)
               => last.ret = NEEDS_ENRICHMENT
        /\ (QueryEnrichedSet /\ QueryTimestampSet /\ QueryArtifactExists
             /\ QueryArtifactSize < 1024)
               => last.ret = CORRUPTED
        /\ (QueryEnrichedSet /\ QueryTimestampSet /\ QueryArtifactExists
             /\ QueryArtifactSize >= 1024)
               => last.ret = READY_FOR_CHAT
        /\ last.ret = READY_FOR_CHAT =>
               /\ QueryHasEntry
               /\ QueryEnrichedSet
               /\ QueryTimestampSet
               /\ QueryArtifactExists
               /\ QueryArtifactSize >= 1024

\* an enriched, timestamped entry whose artifact has 1023 bytes: CORRUPTED
C11_Witness ==
    /\ QueryEnrichedSet
    /\ QueryTimestampSet
    /\ QueryArtifactExists
    /\ QueryArtifactSize = 1023
    /\ last.ret = CORRUPTED

\* C12: on any store, should_skip_enrichment_for_chat is true exactly when
\* get_repository_state is READY_FOR_CHAT, and
\* should_run_full_enrichment_for_new_repo is true exactly when the state is
\* NEEDS_ASSIGNMENT, NEEDS_ENRICHMENT or CORRUPTED; exactly one of the two
\* helpers is true.
C12_DecisionHelpers ==
    /\ \A repo_url \in Urls, service_name \in Names :
           LET states == get_repository_state(repo_url, service_name)
               skip == should_skip_enrichment_for_chat(repo_url, service_name)
               run == should_run_full_enrichment_for_new_repo(repo_url,
                                                              service_name)
           IN /\ Cardinality(states) = 1
              /\ skip = {states = {READY_FOR_CHAT}}
              /\ run = {states \in {{NEEDS_ASSIGNMENT}, {NEEDS_ENRICHMENT},
                                     {CORRUPTED}}}
              /\ skip # run
    /\ last.op = "skip" =>
           last.ret = (get_repository_state(last.repo_url, last.service_name)
                           = {READY_FOR_CHAT})
    /\ last.op = "run" =>
           last.ret = (READY_FOR_CHAT \notin
                           get_repository_state(last.repo_url,
                                                last.service_name))

\* should_run_full_enrichment_for_new_repo answered true on a store where
\* the state is CORRUPTED
C12_Witness ==
    /\ last.op = "run"
    /\ last.ret
    /\ get_repository_state(last.repo_url, last.service_name) = {CORRUPTED}

\* ------------------------------------------------------------------------
\* Properties of mark_enrichment_complete on an arbitrary store (SpecMark)
\* ------------------------------------------------------------------------
\* a step that is a call of mark_enrichment_complete (a call that returns
\* what the call before it returned and writes what is already there
\* changes nothing)
MarkStep == last'.op = "mark" /\ (last' # last \/ docs' # docs)
\* the service file the call of this step is given by the directory listing
MarkFile ==
    CHOOSE service_file \in _find_service_file(last'.service_name) : TRUE
\* the call found a readable document holding an entry object for repo_url
MarkFound ==
    /\ MarkFile # NoFile
    /\ docs[MarkFile].shape = "object"
    /\ Has(docs[MarkFile], "repositories")
    /\ docs[MarkFile].repositories.shape = "object"
    /\ last'.repo_url \in DOMAIN docs[MarkFile].repositories.map
    /\ docs[MarkFile].repositories.map[last'.repo_url].shape = "object"
\* no service file, a document that cannot be read as an object with a
\* repositories mapping, or no entry for repo_url in it
MarkNotFound ==
    \/ MarkFile = NoFile
    \/ docs[MarkFile].shape # "object"
    \/ ~Has(docs[MarkFile], "repositories")
    \/ /\ docs[MarkFile].repositories.shape = "object"
       /\ last'.repo_url \notin DOMAIN docs[MarkFile].repositories.map

\* C13: mark_enrichment_complete on a document holding an entry for
\* repo_url sets enriched and a completion timestamp on that entry, returns
\* true and changes no other member of the entry, no other entry, no other
\* member of the document and no other document; when the document or the
\* entry is not found it returns false and every document stays as it was.
\* It changes neither the registry index nor an artifact.
C13_MarkFrame ==
    [][MarkStep =>
        /\ registry' = registry
        /\ artifacts' = artifacts
        /\ DOMAIN docs' = DOMAIN docs
        /\ MarkFound =>
               LET old == docs[MarkFile]
                   new == docs'[MarkFile]
                   before == old.repositories.map[last'.repo_url]
                   after == new.repositories.map[last'.repo_url]
               IN /\ last'.ret
                  /\ after.enriched
                  /\ after.enrichment_completed_at
                  /\ DOMAIN after = DOMAIN before
                                        \cup {"enriched",
                                              "enrichment_completed_at"}
                  /\ \A k \in DOMAIN before
                                \ {"enriched", "enrichment_completed_at"} :
                         after[k] = before[k]
                  /\ DOMAIN new.repositories.map
                         = DOMAIN old.repositories.map
                  /\ \A key \in DOMAIN old.repositories.map
                                  \ {last'.repo_url} :
                         new.repositories.map[key] = old.repositories.map[key]
                  /\ DOMAIN new = DOMAIN old
                  /\ \A k \in DOMAIN old \ {"repositories"} :
                         new[k] = old[k]
                  /\ \A sid \in DOMAIN docs \ {MarkFile} :
                         docs'[sid] = docs[sid]
        /\ MarkNotFound => (~last'.ret /\ docs' = docs)
    ]_vars

\* a call that returned true on a document holding a second entry
C13_Witness ==
    /\ last.op = "mark"
    /\ last.ret
    /\ \E sid \in DOMAIN docs :
           /\ docs[sid].shape = "object"
           /\ Has(docs[sid], "repositories")
           /\ docs[sid].repositories.shape = "object"
           /\ DOMAIN docs[sid].repositories.map = {UrlWeb, UrlWebGit}
           /\ Has(docs[sid].repositories.map[last.repo_url],
                  "enrichment_completed_at")

\* ------------------------------------------------------------------------
\* Properties of queries between writes (SpecFresh)
\* ------------------------------------------------------------------------
\* the state of repo_url in the service named service_name as the documents
\* D, listed in the order L, and the artifacts A determine it (documents
\* written by the operations: objects with a repositories mapping of entry
\* objects)
FreshState(D, L, A, repo_url, service_name) ==
    LET m == {i \in DOMAIN L : GlobMatch(service_name, L[i])} IN
    IF m = {} THEN NEEDS_ASSIGNMENT
    ELSE LET map == D[L[CHOOSE i \in m : \A j \in m : i <= j]].repositories.map
         IN IF repo_url \notin DOMAIN map THEN NEEDS_ASSIGNMENT
            ELSE IF ~(/\ Has(map[repo_url], "enriched")
                      /\ map[repo_url].enriched
                      /\ Has(map[repo_url], "analysis_timestamp")
                      /\ map[repo_url].analysis_timestamp)
                 THEN NEEDS_ENRICHMENT
            ELSE IF FaissPath[repo_url] \notin DOMAIN A THEN NEEDS_ENRICHMENT
            ELSE IF A[FaissPath[repo_url]] < 1024 THEN CORRUPTED
            ELSE READY_FOR_CHAT

QueryOps == {"state", "skip", "run"}

\* C14: the state is never stored.  A call of get_repository_state or of a
\* decision helper changes no service document, registry index or artifact,
\* and what it returns is determined by the store as it is at the call:
\* what assign_repo_to_service, mark_enrichment_complete or the writing of
\* an artifact changed is seen by the next query.
C14_NoCaching ==
    [][last'.op \in QueryOps =>
          /\ docs' = docs
          /\ listing' = listing
          /\ registry' = registry
          /\ artifacts' = artifacts
          /\ LET state == FreshState(docs', listing', artifacts',
                                     last'.repo_url, last'.service_name)
             IN last'.ret = CASE last'.op = "state" -> state
                              [] last'.op = "skip" -> (state = READY_FOR_CHAT)
                              [] last'.op = "run" -> (state # READY_FOR_CHAT)
    ]_vars

\* a query that answered CORRUPTED for a pair it had answered READY_FOR_CHAT
\* for: the artifact was overwritten in between
C14_Witness ==
    /\ last.op = "state"
    /\ last.ret = CORRUPTED
    /\ <<last.repo_url, last.service_name>> \in seenReady

\* ------------------------------------------------------------------------
\* Properties of assign_repo_to_service called with any arguments
\* (SpecValidate)
\* ------------------------------------------------------------------------
\* C20: a call of assign_repo_to_service with an empty service_id, an empty
\* repo_url, or a service_id that has no service document returns False,
\* makes no external analysis call, and leaves every service document and
\* the registry index as they were.
C20_RejectedLeavesStore ==
    [][(/\ last'.op = "assign"
        /\ RejectedInput(last'.service_id, last'.repo_url))
          => /\ ~last'.ret
             /\ last'.ext_calls = 0
             /\ docs' = docs
             /\ registry' = registry
    ]_vars

\* a call naming a service id without a document, with a non-empty URL,
\* made while the store holds the document of a service, returned False
C20_Witness ==
    /\ last.op = "assign"
    /\ last.service_id # EmptyId
    /\ last.repo_url # EmptyUrl
    /\ last.service_id \notin DOMAIN docs
    /\ docs # <<>>
    /\ ~last.ret

\* ------------------------------------------------------------------------
\* Properties of the operations called one at a time (Spec)
\* ------------------------------------------------------------------------
\* the last completed call is an assign_repo_to_service call
AssignDone == last.op = "assign"
\* the repositories mapping of the service the last call assigned to
AssignedMap == RepositoriesOf(docs[last.service_id]).map
\* every answer get_repository_state can give for the last call's repository
\* and the name of the service it was assigned to
AssignedStates == get_repository_state(last.repo_url, last.service_id.base)
\* a text built of pieces is non-empty
NonEmptyText(text) == \E i \in DOMAIN text : text[i] # ""

\* C2: over create_service, assign_repo_to_service and
\* mark_enrichment_complete calls, with no document or entry deleted, once
\* get_repository_state(repo_url, service_name) has returned READY_FOR_CHAT
\* it never returns NEEDS_ASSIGNMENT for that pair.
C2_NoRegressionToNeedsAssignment ==
    \A pair \in seenReady :
        NEEDS_ASSIGNMENT \notin get_repository_state(pair[1], pair[2])

\* C3: after assign_repo_to_service has run its analysis phase and returned
\* true, get_repository_state for that repository and service does not
\* return NEEDS_ASSIGNMENT.
C3_AssignedAfterAssign ==
    (AssignDone /\ last.ret /\ last.analysis # "skipped")
        => NEEDS_ASSIGNMENT \notin AssignedStates

\* C4: for an entry stored by assign_repo_to_service, once
\* mark_enrichment_complete has returned true, get_repository_state returns
\* READY_FOR_CHAT when an artifact of at least 1024 bytes exists and
\* NEEDS_ENRICHMENT while no artifact exists.
C4_ReadyAfterMarkAndArtifact ==
    (last.op = "mark" /\ last.ret) =>
        LET path == FaissPath[last.repo_url]
            states == get_repository_state(last.repo_url, last.service_name)
        IN /\ (path \in DOMAIN artifacts /\ artifacts[path] >= MinArtifactSize)
                  => states = {READY_FOR_CHAT}
           /\ path \notin DOMAIN artifacts => states = {NEEDS_ENRICHMENT}

\* C5: a second assign_repo_to_service call with the arguments of a call
\* that returned true returns true, makes no external analysis call and
\* leaves the repositories mapping as it was.
C5_AssignIdempotent ==
    (AssignDone /\ last.repeat) =>
        /\ last.ret
        /\ last.ext_calls = 0
        /\ ~last.changed

\* C6: when assign_repo_to_service returns true the service document holds
\* an entry for repo_url (under repo_url or as the url of an entry); it
\* returns false only when the document is not there.
C6_TrueMeansStored ==
    AssignDone =>
        /\ last.ret =>
               /\ last.service_id \in DOMAIN docs
               /\ \E key \in DOMAIN AssignedMap :
                      \/ key = last.repo_url
                      \/ /\ IsObject(AssignedMap[key])
                         /\ AssignedMap[key].url = last.repo_url
        /\ ~last.ret => last.service_id \notin DOMAIN docs

C8_FailedAnalysisNeedsEnrichment ==
    (AssignDone /\ last.analysis \in {"raise", "none"})
        => AssignedStates = {NEEDS_ENRICHMENT}


\* every entry object of every repositories mapping of the store, with the
\* key it is stored under
StoredEntries ==
    {[key |-> key, entry |-> RepositoriesOf(docs[id]).map[key]] :
        <<id, key>> \in
            {ik \in (DOMAIN docs) \X UrlInputs :
                ik[2] \in DOMAIN RepositoriesOf(docs[ik[1]]).map}}

\* C15: in every persisted service document, after any sequence of
\* create_service, assign_repo_to_service (standard or progressive, analysed
\* or fallback) and mark_enrichment_complete calls, repository_count equals
\* the number of keys of repositories.
C15_CountMatchesKeys ==
    \A id \in DOMAIN docs :
        docs[id].repository_count
            = Cardinality(DOMAIN RepositoriesOf(docs[id]).map)

\* C16: in every persisted repository entry, after any sequence of
\* assign_repo_to_service and mark_enrichment_complete calls, enriched true
\* implies that analysis_timestamp is set.
C16_EnrichedHasTimestamp ==
    \A e \in StoredEntries :
        (Has(e.entry, "enriched") /\ e.entry.enriched)
            => (Has(e.entry, "analysis_timestamp")
                /\ e.entry.analysis_timestamp)

\* the canonical form of a URL: its trailing slashes removed, then the
\* suffix ".git" removed, nothing else
CanonicalForm(url) ==
    LET u == RStrip(url, {"/"})
        n == Len(u)
    IN IF n >= 4 /\ SubSeq(u, n - 3, n) = <<".", "g", "i", "t">>
       THEN SubSeq(u, 1, n - 4) ELSE u

\* C17: every key of a repositories mapping is the canonical form of the URL
\* that was assigned (the url member of the entry it holds), whichever
\* analysis stored it.
C17_KeysCanonical ==
    \A e \in StoredEntries : e.key = CanonicalForm(e.entry.url)

\* C18: in every entry stored by an analysis pass, communication_protocols
\* holds at most one entry per protocol_type.
C18_ProtocolsDeduplicated ==
    \A e \in StoredEntries :
        LET protocols == e.entry.communication_protocols IN
        \A i, j \in DOMAIN protocols :
            protocols[i].protocol_type = protocols[j].protocol_type => i = j

\* C19: a call of assign_repo_to_service whose analysis finds no local
\* directory for the repository returns False.
C19_NoPathReturnsFalse ==
    (AssignDone /\ last.analysis = "nopath") => ~last.ret


\* ------------------------------------------------------------------------
\* Properties of create_service (Spec)
\* ------------------------------------------------------------------------
CreateDone == last.op = "create_service"

\* C21: create_service returns an id that the registry did not list before
\* the call, and a create_service call that follows a successful call with
\* the same name, in the same clock second or a later one, returns an id
\* too, distinct from the first.
C21_DistinctIds ==
    /\ (CreateDone /\ last.ret = "ok") => ~last.listed
    /\ (CreateDone /\ last.again # {})
           => (last.ret = "ok" /\ last.id \notin last.again)


\* ------------------------------------------------------------------------
\* Properties of create_service called with any name (SpecCreate)
\* ------------------------------------------------------------------------
\* a step of create_service: the clock stands and the call is the last
\* completed one
CreateStep == now' = now /\ last'.op = "create_service"

\* the id create_service generates for the name at the current second
CreateId == [base |-> HyphenateFrom(Strip(DropSpecial(last'.name)), 1),
             ts |-> now]

\* C22: create_service never overwrites a service document: when a document
\* with the generated id exists, the call ends in the error that reports the
\* conflict, and every document (its repositories included), the listing
\* and the registry index are as before.
C22_NoOverwrite ==
    [][(CreateStep /\ Strip(last'.name) # EmptyName /\ CreateId \in DOMAIN docs)
          => /\ last'.ret = "ValueError"
             /\ docs' = docs
             /\ listing' = listing
             /\ registry' = registry
    ]_vars

\* a create_service call that failed on the document of a service holding
\* a repository entry, made with a name other than the one that created it
C22_Witness ==
    /\ CreateDone
    /\ last.ret = "ValueError"
    /\ last.name = NameSalesPadded
    /\ [base |-> NameSales, ts |-> now] \in DOMAIN docs
    /\ RepositoriesOf(docs[[base |-> NameSales, ts |-> now]]).map # <<>>

\* C23: create_service with an empty or whitespace-only name ends in the
\* validation error, creates no service document and leaves the registry
\* index as it was.
C23_BlankNameRejected ==
    [][(CreateStep /\ Strip(last'.name) = EmptyName)
          => /\ last'.ret = "ValueError"
             /\ docs' = docs
             /\ listing' = listing
             /\ registry' = registry
    ]_vars

\* a whitespace-only name was refused while the store held a service
C23_Witness ==
    /\ CreateDone
    /\ last.name = NameBlank
    /\ last.ret = "ValueError"
    /\ docs # <<>>


\* ------------------------------------------------------------------------
\* Properties of list_services (SpecList)
\* ------------------------------------------------------------------------
ListDone == last.op = "list"

\* C24: list_services returns the summaries the registry index holds, and
\* the empty sequence, not an error, when the index is absent.
C24_ListReadsIndex ==
    ListDone =>
        /\ ~last.ret.raised
        /\ ~registry.present => last.ret.services = <<>>
        /\ (registry.present /\ Has(registry, "services"))
               => last.ret.services = registry.services

\* list_services returned the summaries of two services, the one created
\* last first
C24_Witness ==
    /\ ListDone
    /\ Len(last.ret.services) = 2
    /\ last.ret.services[1].created_at > last.ret.services[2].created_at


\* ------------------------------------------------------------------------
\* Properties of find_service_by_repo_url (SpecFind)
\* ------------------------------------------------------------------------
FindDone == last.op = "find"

\* the documents holding an entry whose URL has the canonical form of
\* repo_url
HoldersOf(repo_url) ==
    {id \in DOMAIN docs :
        \E key \in DOMAIN RepositoriesOf(docs[id]).map :
            CanonicalForm(RepositoriesOf(docs[id]).map[key].url)
                = CanonicalForm(repo_url)}

\* C25: find_service_by_repo_url(repo_url) returns a service document, with
\* service_id added, if and only if some service document holds an entry
\* whose canonical URL equals the canonical form of repo_url, and the
\* document returned is such a document.
C25_FindByCanonicalUrl ==
    FindDone =>
        /\ last.ret.found <=> HoldersOf(last.repo_url) # {}
        /\ last.ret.found =>
               /\ last.ret.service_id \in HoldersOf(last.repo_url)
               /\ last.ret.service_data = docs[last.ret.service_id]


\* ------------------------------------------------------------------------
\* Properties of the registry rebuild (SpecRebuild)
\* ------------------------------------------------------------------------
\* the last completed call wrote a service document
MutatedStore ==
    \/ CreateDone /\ last.ret = "ok"
    \/ AssignDone /\ last.changed

\* a service document with its members, created_at being a time
WellFormedDoc(service_data) ==
    /\ service_data.shape = "object"
    /\ {"id", "name", "created_at", "last_updated"} \subseteq DOMAIN service_data
    /\ service_data.created_at # NullTime

\* the positions of the registry index that list the service sid
ListedAt(sid) ==
    IF registry.present /\ Has(registry, "services")
    THEN {i \in DOMAIN registry.services : registry.services[i].id = sid}
    ELSE {}

\* C26: after a create_service or assign_repo_to_service call that wrote a
\* service document, the registry index lists every valid service document
\* exactly once, with the id, name, created_at, last_updated and
\* repository_count of the document, and lists nothing that has no
\* document: a corrupt file neither fails the rebuild nor drops the others.
C26_RegistryMatchesDocuments ==
    MutatedStore =>
        /\ \A sid \in DOMAIN docs :
               WellFormedDoc(docs[sid]) =>
                   /\ Cardinality(ListedAt(sid)) = 1
                   /\ \A i \in ListedAt(sid) :
                          /\ registry.services[i].name = docs[sid].name
                          /\ registry.services[i].created_at
                                 = docs[sid].created_at
                          /\ registry.services[i].last_updated
                                 = docs[sid].last_updated
                          /\ registry.services[i].repository_count
                                 = docs[sid].repository_count
        /\ RegistryIds \subseteq DOMAIN docs


\* ------------------------------------------------------------------------
\* Properties of repeated rebuilds (SpecScan)
\* ------------------------------------------------------------------------
RebuildDone == last.op = "rebuild"

\* C27: the rebuilt index is a function of the service documents alone:
\* rebuilding from the same documents under any other scan order gives the
\* same sequence of summaries, newest created_at first, also when two
\* documents have the same created_at.
C27_RebuildIndependentOfScan ==
    RebuildDone =>
        /\ \A i, j \in DOMAIN registry.services :
               i < j => registry.services[i].created_at
                            >= registry.services[j].created_at
        /\ \A scan \in Listings(DOMAIN docs) :
               RebuildFrom(docs, scan) = registry


\* ------------------------------------------------------------------------
\* Properties of the progressive analysis step by step (SpecProgressive)
\* ------------------------------------------------------------------------
\* the run in progress, and the step in which a batch answer was taken into
\* the context while the loop goes on
Run == inflight[Runner]
BatchAnswered ==
    /\ Run.active /\ Run.awaiting = "batch"
    /\ Run'.active
    /\ Len(Run'.batch_results) = Len(Run.batch_results) + 1

\* C28: in a progressive run, after the trimming step of every iteration
\* the accumulated context has at most 10,000 characters, so the context
\* every AnalyzeRepositoryBatch call receives has at most 10,000; when the
\* accumulated string exceeds 10,000 characters it is cut to its most
\* recent 8,000, and it is left whole otherwise.
C28_ContextBounded ==
    [][/\ Run'.active =>
              /\ ContextLen(Run'.accumulated_context) <= 10000
              /\ \A k \in DOMAIN Run'.calls :
                     ContextLen(Run'.calls[k].context) <= 10000
       /\ BatchAnswered =>
              LET answer == Run'.batch_results[Len(Run'.batch_results)]
                  added == 20 + Len(answer.batch_category) + answer.analysis.len
                  grown == ContextLen(Run.accumulated_context) + added
                  context == Run'.accumulated_context
              IN IF grown > 10000
                 THEN /\ ContextLen(context) = 8000
                      /\ context[Len(context)].batch = Run.i
                      /\ context[Len(context)].len
                             = IF added > 8000 THEN 8000 ELSE added
                 ELSE /\ ContextLen(context) = grown
                      /\ context = Append(Run.accumulated_context,
                                          [batch |-> Run.i, len |-> added])
    ]_vars

\* a call that received a context cut to 8,000 characters, of which the
\* oldest segment is a part of what its batch appended
C28_Witness ==
    /\ Run.active
    /\ \E k \in DOMAIN Run.calls :
           /\ ContextLen(Run.calls[k].context) = 8000
           /\ Len(Run.calls[k].context) >= 2


\* the last completed operation is a progressive run
ProgressiveDone == last.op = "progressive"

\* the entries the document of the run holds for the repository of the run
RunEntries ==
    LET map == RepositoriesOf(docs[last.service_id]).map IN
    {map[key] : key \in {k \in DOMAIN map : map[k].url = last.repo_url}}

\* C29: a progressive run never raises to its caller.  When planning, a
\* batch call (a middle one included) or the synthesis raised, the run
\* returns failure and the document holds for the repository an entry with
\* analysis_type progressive_baml_failed, role UNKNOWN and the text of the
\* error, unless the write of that entry failed, which is swallowed too.
C29_FailureContained ==
    ProgressiveDone =>
        /\ ~last.raised
        /\ last.stage # "none" =>
               /\ ~last.ret
               /\ last.saved =>
                      /\ RunEntries # {}
                      /\ \A entry \in RunEntries :
                             /\ entry.analysis_type = "progressive_baml_failed"
                             /\ entry.role = "UNKNOWN"
                             /\ entry.error = <<last.msg>>

\* a run whose second batch call raised after the first had answered, and
\* whose failure entry was written
C29_Witness ==
    /\ ProgressiveDone
    /\ last.stage = "batch"
    /\ Len(last.calls) = 2
    /\ last.saved
    /\ RunEntries # {}


\* the AnalyzeRepositoryBatch calls of the run in progress, or of the run
\* that completed last
RunCalls ==
    IF Run.active THEN Run.calls
    ELSE IF ProgressiveDone THEN last.calls
    ELSE <<>>
RunPlan ==
    IF Run.active THEN Run.plan
    ELSE IF ProgressiveDone THEN last.plan
    ELSE PlanEmpty

\* C30: in a progressive run the batch calls are issued one after the other
\* in the order of priority_batches: a call is issued only when every
\* earlier call has returned, no readable batch is passed over, the first
\* call receives the empty context, and the context of a call is built only
\* from the answers of the batches called before it.
C30_BatchesSequential ==
    LET calls == RunCalls IN
    /\ \A k \in DOMAIN calls :
           /\ k < Len(calls) => calls[k].returned
           /\ k < Len(calls) => calls[k].batch < calls[k + 1].batch
           /\ RunPlan.priority_batches[calls[k].batch].readable
           /\ \A b \in 1..(calls[k].batch - 1) :
                  RunPlan.priority_batches[b].readable
                      => \E j \in 1..(k - 1) : calls[j].batch = b
           /\ \A s \in DOMAIN calls[k].context :
                  \E j \in 1..(k - 1) :
                      calls[j].batch = calls[k].context[s].batch
    /\ calls # <<>> => calls[1].context = <<>>

\* the third call of a run awaits its answer; it received a context built
\* from the answers of the two batches called before it
C30_Witness ==
    /\ Run.active
    /\ Len(Run.calls) = 3
    /\ ~Run.calls[3].returned
    /\ {Run.calls[3].context[s].batch : s \in DOMAIN Run.calls[3].context}
           = {Run.calls[1].batch, Run.calls[2].batch}


\* the batches of the plan that have readable content
ReadableBatches(plan) ==
    {b \in DOMAIN plan.priority_batches : plan.priority_batches[b].readable}

\* C31: a batch without readable content is skipped entirely: no
\* AnalyzeRepositoryBatch call is made for it, it adds nothing to the
\* accumulated context or to the batch results, it is not counted in
\* total_batches_processed, and the batches after it are still processed.
C31_UnreadableBatchSkipped ==
    /\ \A k \in DOMAIN RunCalls : RunCalls[k].batch \in ReadableBatches(RunPlan)
    /\ Run.active =>
           /\ Len(Run.batch_results)
                  = Cardinality({k \in DOMAIN Run.calls : Run.calls[k].returned})
           /\ \A s \in DOMAIN Run.accumulated_context :
                  Run.accumulated_context[s].batch \in ReadableBatches(Run.plan)
           /\ Run.awaiting = "batch" =>
                  {Run.calls[k].batch : k \in DOMAIN Run.calls}
                      = {b \in ReadableBatches(Run.plan) : b <= Run.i}
    /\ (ProgressiveDone /\ last.ret) =>
           /\ {last.calls[k].batch : k \in DOMAIN last.calls}
                  = ReadableBatches(last.plan)
           /\ \A entry \in RunEntries :
                  entry.total_batches_processed
                      = Cardinality(ReadableBatches(last.plan))

\* a completed run over the plan whose third batch of five is unreadable:
\* four calls, the last for the fifth batch, four batches counted
C31_Witness ==
    /\ ProgressiveDone /\ last.ret
    /\ last.plan = PlanLong
    /\ Len(last.calls) = 4
    /\ last.calls[4].batch = 5
    /\ \E entry \in RunEntries : entry.total_batches_processed = 4


\* ------------------------------------------------------------------------
\* Properties of the protocol extraction (SpecProtocols)
\* ------------------------------------------------------------------------
ExtractDone == last.op = "extract"

\* the keywords of a protocol type, and whether a batch result contains one
\* of them in any case
KeywordsOf(type) ==
    CASE type = "HTTP/HTTPS" -> {"http", "rest", "api"}
      [] type = "WebSocket" -> {"websocket"}
      [] type = "gRPC" -> {"grpc"}
Mentions(batch_result, type) ==
    \E tok \in batch_result.text : LowerCase[tok] \in KeywordsOf(type)

\* C32: the extraction over the batch results gives one entry per detected
\* protocol type; HTTP/HTTPS, WebSocket or gRPC is present if and only if
\* some batch result contains one of its keywords, in any case; and the
\* configuration_details of an entry names the first batch, in processing
\* order, in which the type was detected.
C32_ProtocolExtraction ==
    ExtractDone =>
        LET results == last.batch_results
            ret == last.ret
        IN /\ \A i, j \in DOMAIN ret :
                  ret[i].protocol_type = ret[j].protocol_type => i = j
           /\ \A i \in DOMAIN ret :
                  ret[i].protocol_type \in {"HTTP/HTTPS", "WebSocket", "gRPC"}
           /\ \A type \in {"HTTP/HTTPS", "WebSocket", "gRPC"} :
                  LET found == {k \in DOMAIN results : Mentions(results[k], type)}
                      at == {i \in DOMAIN ret : ret[i].protocol_type = type}
                  IN /\ (at # {}) <=> (found # {})
                     /\ \A i \in at :
                            \E k \in found :
                                /\ \A m \in found : k <= m
                                /\ ret[i].configuration_details
                                       = <<"Detected in ",
                                           results[k].batch_category,
                                           " analysis">>

\* two batches of different categories both mention a keyword of
\* HTTP/HTTPS, in different cases; the one entry names the first
C32_Witness ==
    /\ ExtractDone
    /\ Len(last.batch_results) = 2
    /\ last.batch_results[1].text = {"rest"}
    /\ last.batch_results[2].text = {"HTTP"}
    /\ last.batch_results[1].batch_category # last.batch_results[2].batch_category
    /\ Len(last.ret) = 1
    /\ last.ret[1].configuration_details
           = <<"Detected in ", last.batch_results[1].batch_category, " analysis">>

\* ------------------------------------------------------------------------
\* C33: strategy selection never fails the assignment.  The strategy is
\* "standard" whenever the strategy call raises and whenever the repository
\* path is missing, whatever the call would have answered.  On a manager
\* without the external capability every assignment returns a boolean and
\* takes the standard branch; when the repository path exists the analysis
\* call raises and the call ends in the fallback path: the entry stored under
\* repo_url is the fallback entry carrying the error, enriched false, and the
\* call returns True; when the path is missing no call is made, nothing is
\* written and the call returns True.
\* ------------------------------------------------------------------------
C33_StrategyNeverFails ==
    /\ \A repo_url \in UrlInputs :
           /\ _detect_analysis_strategy(repo_url, Raise).strategy = "standard"
           /\ ~PathExists(repo_url) =>
                  \A answer \in StrategyAnswers :
                      _detect_analysis_strategy(repo_url, answer).strategy
                          = "standard"
    /\ AssignDone =>
           /\ last.ret \in BOOLEAN
           /\ last.strategy \in {"none", "standard"}
           /\ last.strategy = "standard" =>
                  /\ last.ret
                  /\ IF PathExists(last.repo_url)
                     THEN /\ last.analysis = "raise"
                          /\ AssignedMap[last.repo_url]
                                 = StandardFallbackEntry(last.repo_url,
                                                         MsgNoClient)
                          /\ ~AssignedMap[last.repo_url].enriched
                     ELSE /\ last.analysis = "nopath"
                          /\ ~last.changed

C33_Witness ==
    /\ AssignDone
    /\ last.strategy = "standard"
    /\ last.ext_calls = 2
    /\ last.analysis = "raise"
    /\ last.ret
    /\ AssignedMap[last.repo_url].baml_error = <<MsgNoClient>>

\* ------------------------------------------------------------------------
\* C34: a fallback entry is not permanent.  When the last assignment stored
\* the fallback entry of a failed analysis, the same call made again while
\* the analyzer answers makes external calls again and leaves under repo_url
\* the analysed entry, enriched true.
\* ------------------------------------------------------------------------
C34_FallbackRetried ==
    [][\A service_id \in DOMAIN docs, repo_url \in Urls :
         \A outcome \in StandardOutcomes :
           (/\ AssignDone
            /\ last.service_id = service_id
            /\ last.repo_url = repo_url
            /\ last.ret
            /\ last.analysis = "raise"
            /\ outcome.kind = "ok"
            /\ assign_repo_to_service(service_id, repo_url, "standard",
                                      outcome, AnyRun))
           => /\ last'.ext_calls > 0
              /\ RepositoriesOf(docs'[service_id]).map[repo_url]
                     = StandardEntry(repo_url, outcome)]_vars

\* ------------------------------------------------------------------------
\* C35: no service document is written while an external call is in flight.
\* Helpers: the steps of one caller.
\* ------------------------------------------------------------------------
\* the caller is suspended on an external call
InFlight == inflight[Runner].active

\* the step ends the caller's assignment with a call that raised
CallFailed ==
    /\ InFlight
    /\ ~inflight'[Runner].active
    /\ \/ last'.op = "assign" /\ last'.analysis = "raise"
       \/ last'.op = "progressive" /\ last'.stage \in {"plan", "batch"}

\* Every step that leaves the caller suspended on a call writes no service
\* document, and a document of a service is written only by a step in which
\* the awaited call returned or raised and the assignment ended.
WritesAfterCalls ==
    /\ inflight'[Runner].active => docs' = docs
    /\ (\E service_id \in DOMAIN docs : docs'[service_id] # docs[service_id])
           => /\ InFlight
              /\ ~inflight'[Runner].active
              /\ last'.op \in {"assign", "progressive"}

\* A cancelled call leaves every document as it is, and the document of the
\* service is the one the assignment loaded when it started.
CancelKeeps ==
    (InFlight /\ last'.op = "cancelled") =>
        /\ docs' = docs
        /\ docs'[last'.service_id] = last'.service_data

\* C35, as it holds: while the caller awaits an external call the document
\* of the service is the one loaded when the assignment started; no step
\* writes a document while a call is in flight; a cancelled call leaves the
\* document exactly as it was before the assignment started.
C35_NoWriteInFlight ==
    [][/\ InFlight => docs[inflight[Runner].service_id]
                          = inflight[Runner].service_data
       /\ WritesAfterCalls
       /\ CancelKeeps]_vars

\* C35 as stated: the same, and a call that fails leaves the persisted
\* document exactly as it was before the assignment started.
C35_FailedCallKeepsDocument ==
    [][/\ WritesAfterCalls
       /\ CancelKeeps
       /\ CallFailed => docs' = docs]_vars

C35_Witness ==
    /\ last.op = "cancelled"
    /\ last.awaiting = "batch"
    /\ ~InFlight
    /\ docs[last.service_id] = last.service_data

\* ------------------------------------------------------------------------
\* C36: a get_repository_state call that overlaps one write of the service
\* document returns the state the document gave before the write or the
\* state it gives after the write.  Checked at the step that completes the
\* write, for the read made since the file was opened for writing.
\* ------------------------------------------------------------------------
C36_ReadSeesBeforeOrAfter ==
    [][(/\ InFlight
        /\ inflight[Runner].awaiting = "write"
        /\ ~inflight'[Runner].active
        /\ last.op = "state"
        /\ last.service_file = inflight[Runner].service_id)
       => \E repo_url \in {last.repo_url}, service_file \in {last.service_file} :
              last.ret \in {inflight[Runner].before[repo_url],
                            StateVia(repo_url, service_file)'}]_vars

\* ------------------------------------------------------------------------
\* C37: assign_repo_to_service(service_id, repo_url) writes only the entry
\* of repo_url.  Every entry the service held for another URL (stored under
\* another key, with another url member) is in the document after the call
\* as it was before, and the document of every other service is unchanged.
\* ------------------------------------------------------------------------
C37_AssignWritesOwnEntry ==
    [][last'.op = "assign" =>
         /\ \A service_id \in DOMAIN docs :
                service_id # last'.service_id
                    => docs'[service_id] = docs[service_id]
         /\ last'.service_id \in DOMAIN docs =>
                LET before == RepositoriesOf(docs[last'.service_id])
                    after == RepositoriesOf(docs'[last'.service_id])
                IN before.shape = "object" =>
                       \A key \in DOMAIN before.map :
                           (/\ key # last'.repo_url
                            /\ IsObject(before.map[key])
                            /\ Has(before.map[key], "url")
                            /\ before.map[key].url # last'.repo_url)
                           => /\ key \in DOMAIN after.map
                              /\ after.map[key] = before.map[key]]_vars

\* ------------------------------------------------------------------------
\* C38: two assign_repo_to_service calls for two repositories and one
\* service overlap; after both have returned the document holds both
\* entries.  Checked at the step in which the second call returns: the call
\* that returned last before it stored its entry for the other repository,
\* and the document the second call loaded did not hold that entry yet.
\* ------------------------------------------------------------------------
C38_OverlappingAssignsKeepBoth ==
    [][\A c \in Callers :
         (/\ inflight[c].active
          /\ ~inflight'[c].active
          /\ last.op = "assign"
          /\ last.analysis = "ok"
          /\ last.service_id = inflight[c].service_id
          /\ last.repo_url # inflight[c].repo_url
          /\ last.repo_url
                 \notin DOMAIN RepositoriesOf(inflight[c].service_data).map
          /\ last'.op = "assign"
          /\ last'.analysis = "ok")
         => {last.repo_url, last'.repo_url}
                \subseteq DOMAIN RepositoriesOf(docs'[last'.service_id]).map]_vars

\* ------------------------------------------------------------------------
\* C39: get_repository_state(repo_url, S) and mark_enrichment_complete(
\* repo_url, S) work on the document of service S only.  When S has a
\* document, a create_service call, and an assign_repo_to_service call for
\* another service, leave the file the two operations resolve S to and the
\* state reported for (repo_url, S) as they were.
\* ------------------------------------------------------------------------
C39_OtherServicesDoNotInterfere ==
    [][\A service_name \in Names, repo_url \in Urls :
         \A service_file \in _find_service_file(service_name) :
           (/\ service_file # NoFile
            /\ last' # last
            /\ \/ last'.op = "create_service"
               \/ last'.op = "assign" /\ last'.service_id # service_file)
           => /\ _find_service_file(service_name)' = {service_file}
              /\ get_repository_state(repo_url, service_name)'
                     = get_repository_state(repo_url, service_name)]_vars

\* ------------------------------------------------------------------------
\* C40: the handler of POST /api/services/{service_id}/repos invokes
\* ServiceManager.assign_repo_to_service for the service and the URL and
\* answers 200 exactly when that assignment succeeds (the arguments are not
\* empty and the service document exists), whatever repo_role is.
\* ------------------------------------------------------------------------
C40_EndpointAnswersSuccess ==
    last.op = "post_repos" =>
        /\ last.invoked
        /\ last.status = 200
               <=> ~RejectedInput(last.service_id, last.repo_url)

====
